---- MODULE Spec2Model ----
(***************************************************************************)
(* A model of the fastapi_poe protocol runtime.                            *)
(*                                                                         *)
(*   Spec        the server dispatcher: PoeBot.handle_query driving a user *)
(*               handler, PoeBot.post_message_attachment and the pending   *)
(*               file events kept per message_id (base.py).                *)
(*   ClientSpec  the client engine: stream_request_base retrying           *)
(*               _BotContext.perform_query_request, consumed by            *)
(*               get_final_response (client.py).                           *)
(*   AttemptSpec one attempt of perform_query_request, with malformed      *)
(*               events and events sent after done.                        *)
(*   RoundTripSpec  handle_query's event stream read by one attempt.       *)
(*   ToolsSpec   _stream_request_with_tools (client.py).                   *)
(*   CostSpec    PoeBot.capture_cost and authorize_cost (base.py).         *)
(*   AppSpec     make_app and the access key it looks for (base.py).       *)
(*   PromptSpec  PoeBot.make_prompt_author_role_alternated (base.py).      *)
(*   InsertSpec  PoeBot.insert_attachment_messages (base.py).              *)
(*   SyncSpec    run_sync (sync_utils.py).                                 *)
(*   AttachmentSpec  the dispatcher with failing attachment uploads.       *)
(*   UploadSpec  upload_file and its retries (client.py).                  *)
(*   ClientLiveSpec  ClientSpec under weak fairness of the client's steps. *)
(*                                                                         *)
(* One action is one stretch of code between two suspension points (an     *)
(* await or a yield of an async generator).                                *)
(***************************************************************************)
EXTENDS Integers, Sequences, FiniteSets, TLC

(***************************************************************************)
(* Bounds of the model.                                                    *)
(***************************************************************************)
\* handler operations (elements yielded and attachments uploaded) over all runs
MaxOps == 3

(***************************************************************************)
(* JSON.  The data of a ServerSentEvent is a string; it is modelled by     *)
(* what json.loads makes of it: not JSON at all, a JSON value that is no   *)
(* object, or an object (a function from keys to typed values).            *)
(***************************************************************************)
JStr(s) == [t |-> "str", v |-> s]
JBool(b) == [t |-> "bool", v |-> IF b THEN "true" ELSE "false"]
JInt(n) == [t |-> "int", v |-> ToString(n)]
JNull == [t |-> "null", v |-> "null"]

EmptyDict == [k \in {} |-> JNull]

\* Python's None, for optional string arguments
None == "<None>"

\* `not self.access_key`, `not request.bot_query_id`: None and "" are falsy
Falsy(str) == str \in {None, ""}

\* json.dumps of a dict
json_dumps(dict) == [kind |-> "object", obj |-> dict]
\* a string that is not JSON, and the JSON text of a number
InvalidJson == [kind |-> "invalid", obj |-> EmptyDict]
NonDictJson == [kind |-> "nondict", obj |-> EmptyDict]

ServerSentEvent(event, data) == [event |-> event, data |-> data]

\* repr() of an object named by a string
Repr(x) == "repr(" \o x \o ")"

(***************************************************************************)
(* base.py: the event constructors of PoeBot.                              *)
(***************************************************************************)
text_event(text) ==
    ServerSentEvent("text", json_dumps("text" :> JStr(text)))

replace_response_event(text) ==
    ServerSentEvent("replace_response", json_dumps("text" :> JStr(text)))

suggested_reply_event(text) ==
    ServerSentEvent("suggested_reply", json_dumps("text" :> JStr(text)))

data_event(metadata) ==
    ServerSentEvent("data", json_dumps("metadata" :> JStr(metadata)))

done_event == ServerSentEvent("done", json_dumps(EmptyDict))

file_event(url, content_type, name, inline_ref) ==
    ServerSentEvent("file",
        json_dumps(("url" :> JStr(url))
                   @@ ("content_type" :> JStr(content_type))
                   @@ ("name" :> JStr(name))
                   @@ ("inline_ref" :>
                         IF inline_ref = None THEN JNull ELSE JStr(inline_ref))))

meta_event(content_type, refetch_settings, linkify, suggested_replies) ==
    ServerSentEvent("meta",
        json_dumps(("content_type" :> JStr(content_type))
                   @@ ("refetch_settings" :> JBool(refetch_settings))
                   @@ ("linkify" :> JBool(linkify))
                   @@ ("suggested_replies" :> JBool(suggested_replies))))

error_event(text, raw_response, allow_retry, error_type) ==
    ServerSentEvent("error",
        json_dumps(("allow_retry" :> JBool(allow_retry))
                   @@ (IF text # None THEN "text" :> JStr(text) ELSE EmptyDict)
                   @@ (IF raw_response # None
                          THEN "raw_response" :> JStr(Repr(raw_response))
                          ELSE EmptyDict)
                   @@ (IF error_type # None
                          THEN "error_type" :> JStr(error_type)
                          ELSE EmptyDict)))

(***************************************************************************)
(* types.py: what a handler can yield.                                     *)
(***************************************************************************)
PartialResponse(text, is_suggested_reply, is_replace_response) ==
    [cls |-> "PartialResponse", text |-> text,
     is_suggested_reply |-> is_suggested_reply,
     is_replace_response |-> is_replace_response]

ErrorResponse(text, raw_response, allow_retry, error_type) ==
    [cls |-> "ErrorResponse", text |-> text, raw_response |-> raw_response,
     allow_retry |-> allow_retry, error_type |-> error_type]

MetaResponse(content_type, refetch_settings, linkify, suggested_replies) ==
    [cls |-> "MetaResponse", content_type |-> content_type,
     refetch_settings |-> refetch_settings, linkify |-> linkify,
     suggested_replies |-> suggested_replies]

DataResponse(metadata) == [cls |-> "DataResponse", metadata |-> metadata]

RawEvent(sse) == [cls |-> "ServerSentEvent", sse |-> sse]

\* an object of none of these classes, without the attributes handle_query reads
OtherObject == [cls |-> "object"]

\* the elements the modelled handlers choose from
Elements ==
    { PartialResponse("a", s, r) : s \in BOOLEAN, r \in BOOLEAN }
    \cup { ErrorResponse("e", "raw", TRUE, None),
           MetaResponse("text/markdown", FALSE, TRUE, TRUE),
           DataResponse("md"),
           RawEvent(done_event),
           RawEvent(ServerSentEvent("json", json_dumps("k" :> JStr("v")))),
           OtherObject }

Queries == {"q1", "q2"}
MsgIds == {"m1", "m2"}
\* the exceptions a handler raises, besides InsufficientFundError
Exceptions == {"ValueError"}

VARIABLES
    file_events_to_yield,   \* PoeBot._file_events_to_yield: message_id -> list
    qpc,                    \* per query: "idle", "running", "finished"
    message_id,             \* per query: request.message_id
    hstate,                 \* per query: the handler generator: "open" or "exhausted"
    trace,                  \* per query: what the handler did, in order
    emitted,                \* per query: the events handle_query has yielded
    ending,                 \* per query: how get_response ended: "completed",
                            \* the exception it raised, or "translation_raised"
    n_uploads               \* uploads so far (names the attachment urls)

svars == <<file_events_to_yield, qpc, message_id, hstate, trace, emitted,
           ending, n_uploads>>

InitServer ==
    /\ file_events_to_yield = [m \in MsgIds |-> <<>>]
    /\ qpc = [q \in Queries |-> "idle"]
    /\ message_id = [q \in Queries |-> None]
    /\ hstate = [q \in Queries |-> "open"]
    /\ trace = [q \in Queries |-> <<>>]
    /\ emitted = [q \in Queries |-> <<>>]
    /\ ending = [q \in Queries |-> "none"]
    /\ n_uploads = 0

(***************************************************************************)
(* base.py: PoeBot.handle_query and what it calls.                         *)
(***************************************************************************)
RECURSIVE CountYields(_)
CountYields(tr) ==
    IF tr = <<>> THEN 0
    ELSE (IF Head(tr).op = "yield" THEN 1 ELSE 0) + CountYields(Tail(tr))

\* the operations the handlers have performed so far, over all runs
TotalOps == Len(trace["q1"]) + Len(trace["q2"])

\* handle_query's isinstance / flag chain raises AttributeError for an object
\* that has no is_suggested_reply attribute
TranslateRaises(event) == event.cls = "object"

\* the if / elif chain of handle_query, base.py 852-875
Translate(event) ==
    IF event.cls = "ServerSentEvent" THEN event.sse
    ELSE IF event.cls = "ErrorResponse"
        THEN error_event(event.text, event.raw_response, event.allow_retry,
                         event.error_type)
    ELSE IF event.cls = "MetaResponse"
        THEN meta_event(event.content_type, event.refetch_settings,
                        event.linkify, event.suggested_replies)
    ELSE IF event.cls = "DataResponse" THEN data_event(event.metadata)
    ELSE IF event.is_suggested_reply THEN suggested_reply_event(event.text)
    ELSE IF event.is_replace_response THEN replace_response_event(event.text)
    ELSE text_event(event.text)

\* (mutant) the except branch lets the peer retry
UnexpectedIssueRetryable(e) ==
    error_event("The bot encountered an unexpected issue.", e, TRUE, None)

\* the except branch of handle_query, base.py 881-887
UnexpectedIssue(e) ==
    error_event("The bot encountered an unexpected issue.", e, FALSE, None)

\* (mutant) one list of pending file events for all the requests
PendingFileEventsOfAll(m) ==
    file_events_to_yield["m1"] \o file_events_to_yield["m2"]

\* _yield_pending_file_events: the list popped for message_id
PendingFileEvents(m) == file_events_to_yield[m]

\* (mutant) the element is emitted first and the pending file events after it
ReceiveElementThenDrain(q, event, by, ends) ==
    LET m == message_id[q]
    IN  /\ file_events_to_yield' = [file_events_to_yield EXCEPT ![m] = <<>>]
        /\ IF TranslateRaises(event)
              THEN /\ emitted' = [emitted EXCEPT ![q] =
                        @ \o <<UnexpectedIssue("AttributeError"), done_event>>]
                   /\ trace' = [trace EXCEPT ![q] = Append(@,
                        [op |-> "yield", elem |-> event, by |-> by, at |-> 0])]
                   /\ qpc' = [qpc EXCEPT ![q] = "finished"]
                   /\ ending' = [ending EXCEPT ![q] = "translation_raised"]
              ELSE /\ emitted' = [emitted EXCEPT ![q] =
                        Append(@, Translate(event)) \o PendingFileEvents(m)]
                   /\ trace' = [trace EXCEPT ![q] = Append(@,
                        [op |-> "yield", elem |-> event, by |-> by,
                         at |-> Len(emitted[q]) + 1])]
                   /\ qpc' = qpc
                   /\ ending' = [ending EXCEPT ![q] = ends]

\* handle_query receives one element of get_response_with_context: it drains
\* the pending file events of the request's message_id, then translates the
\* element; a translation that raises ends the run in the except branch.
\* `ends` is what this tells of how get_response ended ("none": it goes on).
ReceiveElement(q, event, by, ends) ==
    LET m == message_id[q]
        drained == emitted[q] \o PendingFileEvents(m)
    IN  /\ file_events_to_yield' = [file_events_to_yield EXCEPT ![m] = <<>>]
        /\ IF TranslateRaises(event)
              THEN /\ emitted' = [emitted EXCEPT ![q] =
                        drained \o <<UnexpectedIssue("AttributeError"), done_event>>]
                   /\ trace' = [trace EXCEPT ![q] = Append(@,
                        [op |-> "yield", elem |-> event, by |-> by, at |-> 0])]
                   /\ qpc' = [qpc EXCEPT ![q] = "finished"]
                   /\ ending' = [ending EXCEPT ![q] = "translation_raised"]
              ELSE /\ emitted' = [emitted EXCEPT ![q] =
                        Append(drained, Translate(event))]
                   /\ trace' = [trace EXCEPT ![q] = Append(@,
                        [op |-> "yield", elem |-> event, by |-> by,
                         at |-> Len(drained) + 1])]
                   /\ qpc' = qpc
                   /\ ending' = [ending EXCEPT ![q] = ends]

\* a query request arrives and handle_query starts; the identifiers of the
\* requests in progress are distinct; q1 names the request that came first
\* and m1 its identifier
StartQuery(q, m) ==
    /\ qpc[q] = "idle"
    /\ q = "q2" => qpc["q1"] # "idle"
    /\ q = "q1" => m = "m1"
    /\ \A p \in Queries : qpc[p] = "running" => message_id[p] # m
    /\ qpc' = [qpc EXCEPT ![q] = "running"]
    /\ message_id' = [message_id EXCEPT ![q] = m]
    /\ UNCHANGED <<file_events_to_yield, hstate, trace, emitted, ending, n_uploads>>

\* a call of post_message_attachment: the message_id argument is given or
\* None, a filename or download_filename is given, a download_url is given,
\* the access_key argument, and what upload_file does
AttachmentCall(has_message_id, has_name, has_download_url, access_key, upload) ==
    [has_message_id |-> has_message_id, has_name |-> has_name,
     has_download_url |-> has_download_url, access_key |-> access_key,
     upload |-> upload]

\* what post_message_attachment raises before it touches the pending file
\* events, None when it goes on to append one, base.py 387-428; bot_access_key
\* is self.access_key
post_message_attachment_raises(bot_access_key, call) ==
    IF ~call.has_message_id THEN "AssertionError"
    ELSE IF ~call.has_name /\ ~call.has_download_url THEN "InvalidParameterError"
    ELSE IF Falsy(bot_access_key) /\ call.access_key = None
        THEN "InvalidParameterError"
    ELSE IF Falsy(bot_access_key) /\ call.access_key = ""
        THEN "ValueError"
    ELSE IF call.upload # "ok" THEN call.upload
    ELSE None

\* (mutant) only an inline attachment gets a file event
post_message_attachment_inline_only(q, is_inline) ==
    /\ qpc[q] = "running" /\ hstate[q] = "open"
    /\ TotalOps < MaxOps
    /\ LET n == n_uploads + 1
           url == "url" \o ToString(n)
           inline_ref == IF is_inline THEN "ref" \o ToString(n) ELSE None
           m == message_id[q]
       IN  /\ n_uploads' = n
           /\ file_events_to_yield' = [file_events_to_yield EXCEPT ![m] =
                IF is_inline
                   THEN Append(@, file_event(url, "image/png", "name", inline_ref))
                   ELSE @]
           /\ trace' = [trace EXCEPT ![q] = Append(@,
                [op |-> "upload", url |-> url, inline_ref |-> inline_ref,
                 is_inline |-> is_inline])]
    /\ UNCHANGED <<qpc, message_id, hstate, emitted, ending>>

\* the handler awaits post_message_attachment(message_id=request.message_id)
\* and the upload succeeds, base.py 422-446; the trace keeps what the call
\* returned (attachment_url, inline_ref)
post_message_attachment(q, is_inline) ==
    /\ qpc[q] = "running" /\ hstate[q] = "open"
    /\ TotalOps < MaxOps
    /\ LET n == n_uploads + 1
           url == "url" \o ToString(n)
           inline_ref == IF is_inline THEN "ref" \o ToString(n) ELSE None
           m == message_id[q]
       IN  /\ n_uploads' = n
           /\ file_events_to_yield' = [file_events_to_yield EXCEPT ![m] =
                Append(@, file_event(url, "image/png", "name", inline_ref))]
           /\ trace' = [trace EXCEPT ![q] = Append(@,
                [op |-> "upload", url |-> url, inline_ref |-> inline_ref,
                 is_inline |-> is_inline])]
    /\ UNCHANGED <<qpc, message_id, hstate, emitted, ending>>

\* the handler awaits post_message_attachment and the call raises: the
\* parameters are rejected or upload_file fails, base.py 387-428; the handler
\* goes on (it may raise in turn: HandlerRaises)
post_message_attachment_fails(q, bot_access_key, call) ==
    /\ qpc[q] = "running" /\ hstate[q] = "open"
    /\ TotalOps < MaxOps
    /\ post_message_attachment_raises(bot_access_key, call) # None
    /\ trace' = [trace EXCEPT ![q] = Append(@,
          [op |-> "upload_raised",
           exc |-> post_message_attachment_raises(bot_access_key, call)])]
    /\ UNCHANGED <<file_events_to_yield, qpc, message_id, hstate, emitted,
                   ending, n_uploads>>

\* get_response yields an element, passed on by get_response_with_context
HandlerYields(q, event) ==
    /\ qpc[q] = "running" /\ hstate[q] = "open"
    /\ TotalOps < MaxOps
    /\ ReceiveElement(q, event, "get_response", "none")
    /\ UNCHANGED <<message_id, hstate, n_uploads>>

\* (mutant) get_response_with_context lets InsufficientFundError through
InsufficientFundUncaught(q) ==
    /\ qpc[q] = "running" /\ hstate[q] = "open"
    /\ emitted' = [emitted EXCEPT ![q] =
          @ \o <<UnexpectedIssue("InsufficientFundError"), done_event>>]
    /\ qpc' = [qpc EXCEPT ![q] = "finished"]
    /\ ending' = [ending EXCEPT ![q] = "InsufficientFundError"]
    /\ UNCHANGED <<file_events_to_yield, message_id, hstate, trace, n_uploads>>

\* get_response raises InsufficientFundError: get_response_with_context
\* yields an ErrorResponse in its place and is then exhausted, base.py 199-203
GetResponseRaisesInsufficientFund(q) ==
    /\ qpc[q] = "running" /\ hstate[q] = "open"
    /\ ReceiveElement(q, ErrorResponse("", None, FALSE, "insufficient_fund"),
                      "get_response_with_context", "InsufficientFundError")
    /\ hstate' = [hstate EXCEPT ![q] = "exhausted"]
    /\ UNCHANGED <<message_id, n_uploads>>

\* (mutant) the generator is exhausted and done is emitted at once
HandlerCompletesWithoutDrain(q) ==
    /\ qpc[q] = "running"
    /\ emitted' = [emitted EXCEPT ![q] = Append(@, done_event)]
    /\ qpc' = [qpc EXCEPT ![q] = "finished"]
    /\ ending' = [ending EXCEPT ![q] =
          IF hstate[q] = "exhausted" THEN @ ELSE "completed"]
    /\ UNCHANGED <<file_events_to_yield, message_id, hstate, trace, n_uploads>>

\* the generator is exhausted: the remaining file events, then done,
\* base.py 876-880 and 888
HandlerCompletes(q) ==
    /\ qpc[q] = "running"
    /\ LET m == message_id[q]
       IN  /\ emitted' = [emitted EXCEPT ![q] =
                Append(@ \o PendingFileEvents(m), done_event)]
           /\ file_events_to_yield' = [file_events_to_yield EXCEPT ![m] = <<>>]
    /\ qpc' = [qpc EXCEPT ![q] = "finished"]
    /\ ending' = [ending EXCEPT ![q] =
          IF hstate[q] = "exhausted" THEN @ ELSE "completed"]
    /\ UNCHANGED <<message_id, hstate, trace, n_uploads>>

\* (mutant) the except branch ends the stream without done
HandlerRaisesNoDone(q, e) ==
    /\ qpc[q] = "running" /\ hstate[q] = "open"
    /\ emitted' = [emitted EXCEPT ![q] = Append(@, UnexpectedIssue(e))]
    /\ qpc' = [qpc EXCEPT ![q] = "finished"]
    /\ ending' = [ending EXCEPT ![q] = e]
    /\ UNCHANGED <<file_events_to_yield, message_id, hstate, trace, n_uploads>>

\* get_response raises an exception other than InsufficientFundError
HandlerRaises(q, e) ==
    /\ qpc[q] = "running" /\ hstate[q] = "open"
    /\ emitted' = [emitted EXCEPT ![q] =
          @ \o <<UnexpectedIssue(e), done_event>>]
    /\ qpc' = [qpc EXCEPT ![q] = "finished"]
    /\ ending' = [ending EXCEPT ![q] = e]
    /\ UNCHANGED <<file_events_to_yield, message_id, hstate, trace, n_uploads>>

(***************************************************************************)
(* client.py: the client engine.                                           *)
(***************************************************************************)
VARIABLES
    num_tries,        \* stream_request_base: the num_tries argument
    tools,            \* whether a non-empty tools list was passed
    cpc,              \* stream_request_base: "loop", "streaming", "sleeping",
                      \* "returned" or "raised"
    try_i,            \* stream_request_base: the loop index i
    got_response,     \* stream_request_base: got_response
    chunks,           \* perform_query_request: chunks
    event_count,      \* perform_query_request: event_count
    error_reported,   \* perform_query_request: error_reported
    received,         \* the events the current attempt has read, in order
    effects,          \* what reading each of them did, and the buffers after it
    late,             \* events the peer sent after the attempt returned
    yielded,          \* the messages stream_request_base has yielded
    reports,          \* the messages passed to report_error, in order
    outcomes,         \* how each attempt so far ended, and what it yielded
    attempts,         \* attempts started
    sleeps,           \* retry sleeps started
    raised,           \* the exception stream_request_base raised
    final_chunks,     \* get_final_response: chunks (it passes no tools)
    final_result      \* get_final_response: what it returned or raised

cvars == <<num_tries, tools, cpc, try_i, got_response, chunks, event_count,
           error_reported, received, effects, late, yielded, reports, outcomes,
           attempts, sleeps, raised, final_chunks, final_result>>

\* an exception: its class, and the class of its __cause__
Exc(type, cause) == [type |-> type, cause |-> cause]
NoExc == Exc(None, None)

\* BotErrorNoRetry is a subclass of BotError, client.py 53-58
IsBotError(exc) == exc.type \in {"BotError", "BotErrorNoRetry"}

NoData == [kind |-> "none", obj |-> EmptyDict]

BotMessage(text, data, attachment, is_suggested_reply, is_replace_response, index) ==
    [cls |-> "BotMessage", text |-> text, data |-> data, attachment |-> attachment,
     is_suggested_reply |-> is_suggested_reply,
     is_replace_response |-> is_replace_response, index |-> index]

MetaMessage(linkify, suggested_replies, content_type) ==
    [cls |-> "MetaMessage", text |-> "", linkify |-> linkify,
     suggested_replies |-> suggested_replies, content_type |-> content_type,
     refetch_settings |-> FALSE,
     is_suggested_reply |-> FALSE, is_replace_response |-> FALSE]

NoMessage == [cls |-> "none"]

\* dict.get(key, default)
Get(dict, key, default) == IF key \in DOMAIN dict THEN dict[key] ELSE default

\* the truth value Python gives a JSON value
Truthy(v) ==
    CASE v.t = "bool" -> v.v = "true"
      [] v.t = "null" -> FALSE
      [] v.t = "str" -> v.v # ""
      [] v.t = "int" -> v.v # "0"

\* _load_json_dict: the report and the exception for data that is no object
load_json_dict_report(data, context) ==
    IF data.kind = "invalid"
        THEN "Invalid JSON in '" \o context \o "' event"
        ELSE "Expected JSON dict in '" \o context \o "' event"

load_json_dict_error(data) ==
    IF data.kind = "invalid" THEN Exc("BotErrorNoRetry", None)
    ELSE Exc("BotError", None)

\* _get_single_json_integer_field_safe: bool is an int in Python
get_single_json_integer_field_safe(dict, field) ==
    IF field \in DOMAIN dict /\ dict[field].t \in {"int", "bool"}
        THEN dict[field].v ELSE None

\* _get_single_json_string_field_safe
get_single_json_string_field_safe(dict, field) ==
    IF field \in DOMAIN dict /\ dict[field].t = "str" THEN dict[field].v ELSE None

\* what the body of the event loop does with one event
Continue(reps, flag) ==
    [kind |-> "continue", msg |-> NoMessage, exc |-> NoExc, reports |-> reps,
     chunks |-> chunks, error_reported |-> flag]
Yield(msg, newchunks) ==
    [kind |-> "yield", msg |-> msg, exc |-> NoExc, reports |-> <<>>,
     chunks |-> newchunks, error_reported |-> error_reported]
Raise(exc, reps) ==
    [kind |-> "raise", msg |-> NoMessage, exc |-> exc, reports |-> reps,
     chunks |-> chunks, error_reported |-> error_reported]
Return(reps) ==
    [kind |-> "return", msg |-> NoMessage, exc |-> NoExc, reports |-> reps,
     chunks |-> chunks, error_reported |-> error_reported]

\* _get_single_json_field(event.data, context, message_id, field): whether it
\* raises, and what it then reports and raises
get_single_json_field_raises(dict, field) ==
    field \notin DOMAIN dict \/ dict[field].t # "str"

get_single_json_field_error(dict, context, field) ==
    IF field \notin DOMAIN dict THEN Raise(Exc("KeyError", None), <<>>)
    ELSE Raise(Exc("BotErrorNoRetry", None),
               <<"Expected string in '" \o field \o "' field for '"
                 \o context \o "' event">>)

\* (mutant) the done branch does not return
OnDoneContinues == Continue(<<>>, error_reported)

\* (mutant) the done branch forgets the reports already made
OnDoneIgnoresErrorReported ==
    IF chunks = <<>> /\ ~tools
        THEN Return(<<"Bot returned no text in response">>)
        ELSE Return(<<>>)

\* the done branch, client.py 191-198
OnDone ==
    IF chunks = <<>> /\ ~error_reported /\ ~tools
        THEN Return(<<"Bot returned no text in response">>)
        ELSE Return(<<>>)

\* (mutant) the meta branch without the event_count test
OnMetaAnyPosition(dict, count) ==
    LET linkify == Get(dict, "linkify", JBool(FALSE))
        send_suggested_replies == Get(dict, "suggested_replies", JBool(FALSE))
        content_type == Get(dict, "content_type", JStr("text/markdown"))
    IN  IF linkify.t # "bool" \/ send_suggested_replies.t # "bool"
           \/ content_type.t # "str"
            THEN Continue(<<"Invalid value in 'meta' event">>, TRUE)
        ELSE Yield(MetaMessage(linkify.v, send_suggested_replies.v, content_type.v),
                   chunks)

\* the meta branch, client.py 248-288; count is event_count after the increment
OnMeta(dict, count) ==
    IF count # 1 THEN Continue(<<>>, error_reported)
    ELSE LET linkify == Get(dict, "linkify", JBool(FALSE))
             send_suggested_replies == Get(dict, "suggested_replies", JBool(FALSE))
             content_type == Get(dict, "content_type", JStr("text/markdown"))
         IN  IF linkify.t # "bool"
                 THEN Continue(<<"Invalid linkify value in 'meta' event">>, TRUE)
             ELSE IF send_suggested_replies.t # "bool"
                 THEN Continue(<<"Invalid suggested_replies value in 'meta' event">>,
                               TRUE)
             ELSE IF content_type.t # "str"
                 THEN Continue(<<"Invalid content_type value in 'meta' event">>, TRUE)
             ELSE Yield(MetaMessage(linkify.v, send_suggested_replies.v,
                                    content_type.v), chunks)

\* the error branch, client.py 289-294
OnError(dict) ==
    IF Truthy(Get(dict, "allow_retry", JBool(TRUE)))
        THEN Raise(Exc("BotError", None), <<>>)
        ELSE Raise(Exc("BotErrorNoRetry", None), <<>>)

\* the file branch, client.py 208-227
OnFile(dict, index) ==
    IF get_single_json_field_raises(dict, "url")
        THEN get_single_json_field_error(dict, "file", "url")
    ELSE IF get_single_json_field_raises(dict, "content_type")
        THEN get_single_json_field_error(dict, "file", "content_type")
    ELSE IF get_single_json_field_raises(dict, "name")
        THEN get_single_json_field_error(dict, "file", "name")
    ELSE Yield(BotMessage("", NoData,
                 [url |-> dict["url"].v, content_type |-> dict["content_type"].v,
                  name |-> dict["name"].v,
                  inline_ref |-> get_single_json_string_field_safe(dict, "inline_ref")],
                 FALSE, FALSE, index), chunks)

NoAttachment == [url |-> None, content_type |-> None, name |-> None,
                 inline_ref |-> None]

\* the body of `async for event in event_source.aiter_sse()`, client.py 186-317
Process(event) ==
    LET data == event.data
        dict == data.obj
        count == event_count + 1
        index == get_single_json_integer_field_safe(dict, "index")
        textmsg(text) ==
            Yield(BotMessage(text, NoData, NoAttachment, FALSE, FALSE, index),
                  Append(chunks, text))
        replacemsg(text) ==
            Yield(BotMessage(text, NoData, NoAttachment, FALSE, TRUE, index), <<text>>)
        suggestmsg(text) ==
            Yield(BotMessage(text, NoData, NoAttachment, TRUE, FALSE, index), chunks)
    IN  IF data.kind # "object"
            THEN Raise(load_json_dict_error(data),
                       <<load_json_dict_report(data, event.event)>>)
        ELSE IF event.event = "done" THEN OnDone
        ELSE IF event.event \in {"text", "replace_response", "suggested_reply"}
                /\ get_single_json_field_raises(dict, "text")
            THEN get_single_json_field_error(dict, event.event, "text")
        ELSE IF event.event = "text" THEN textmsg(dict["text"].v)
        ELSE IF event.event = "replace_response" THEN replacemsg(dict["text"].v)
        ELSE IF event.event = "file" THEN OnFile(dict, index)
        ELSE IF event.event = "suggested_reply" THEN suggestmsg(dict["text"].v)
        ELSE IF event.event = "json"
            THEN Yield(BotMessage("", data, NoAttachment, FALSE, FALSE, index), chunks)
        ELSE IF event.event = "meta" THEN OnMeta(dict, count)
        ELSE IF event.event = "error" THEN OnError(dict)
        ELSE IF event.event = "ping" THEN Continue(<<>>, error_reported)
        ELSE Continue(<<"Unknown event type: " \o event.event>>, TRUE)

\* (mutant) get_final_response keeps the suggested replies
FinalChunksKeepsSuggested(fc, message) ==
    IF message.cls = "MetaMessage" THEN fc
    ELSE IF message.is_replace_response THEN <<message.text>>
    ELSE Append(fc, message.text)

\* get_final_response: the body of its loop, client.py 859-865
FinalChunksAfter(fc, message) ==
    IF message.cls = "MetaMessage" THEN fc
    ELSE IF message.is_suggested_reply THEN fc
    ELSE IF message.is_replace_response THEN <<message.text>>
    ELSE Append(fc, message.text)

\* "".join(chunks)
RECURSIVE Join(_)
Join(strs) == IF strs = <<>> THEN "" ELSE Head(strs) \o Join(Tail(strs))

(***************************************************************************)
(* client.py: stream_request_base, one action per stretch between awaits.  *)
(***************************************************************************)
NoResult == [kind |-> "none", exc |-> NoExc, text |-> ""]

\* how get_final_response ends once stream_request ends, client.py 847-868
FinalResultOf(pc, exc, fc) ==
    IF pc = "raised" THEN [kind |-> "raise", exc |-> exc, text |-> ""]
    ELSE IF pc = "returned"
        THEN IF fc = <<>>
                THEN [kind |-> "raise", exc |-> Exc("BotError", None), text |-> ""]
                ELSE [kind |-> "return", exc |-> NoExc, text |-> Join(fc)]
    ELSE NoResult

RECURSIVE SumYields(_)
SumYields(effs) ==
    IF effs = <<>> THEN 0 ELSE Head(effs).yields + SumYields(Tail(effs))

\* the events read so far that left their attempt running, over all attempts
RECURSIVE SumRunning(_)
SumRunning(outs) ==
    IF outs = <<>> THEN 0 ELSE Head(outs).running + SumRunning(Tail(outs))

RECURSIVE CountRunning(_)
CountRunning(effs) ==
    IF effs = <<>> THEN 0
    ELSE (IF Head(effs).kind \in {"yield", "continue"} THEN 1 ELSE 0)
         + CountRunning(Tail(effs))

EventsRead == SumRunning(outcomes) + CountRunning(effects)

Outcome(how) ==
    [how |-> how, yields |-> SumYields(effects), running |-> CountRunning(effects)]

\* iteration k of `for i in range(num_tries)` opens the request, client.py 638-645
BeginAttempt(k) ==
    /\ try_i' = k
    /\ IF k < num_tries
          THEN /\ cpc' = "streaming"
               /\ attempts' = attempts + 1
          ELSE /\ cpc' = "returned"
               /\ attempts' = attempts
    /\ chunks' = <<>>
    /\ event_count' = 0
    /\ error_reported' = FALSE
    /\ received' = <<>>
    /\ effects' = <<>>
    /\ final_result' = FinalResultOf(cpc', raised, final_chunks)

\* the bot_name argument
BotName == "bot"

\* raise BotError(f"Error communicating with bot {bot_name}") from e
ErrorCommunicating(bot_name, cause) ==
    [type |-> "BotError", cause |-> cause,
     msg |-> "Error communicating with bot " \o bot_name]

\* (mutant) every exception is raised as it came
RaisedAsItCame(exc) == exc

\* what stream_request_base raises when it gives up on exc, client.py 659-665
RaisedFor(exc) ==
    IF IsBotError(exc) THEN exc ELSE ErrorCommunicating(BotName, exc.type)

\* (mutant) a failure after a yielded message is retried like any other
FailIgnoresGotResponse(exc, how) ==
    /\ outcomes' = Append(outcomes, Outcome(how))
    /\ IF exc.type = "BotErrorNoRetry"
          THEN /\ raised' = exc
               /\ cpc' = "raised"
               /\ sleeps' = sleeps
          ELSE IF try_i = num_tries - 1
                  THEN /\ raised' = RaisedFor(exc)
                       /\ cpc' = "raised"
                       /\ sleeps' = sleeps
                  ELSE /\ raised' = raised
                       /\ cpc' = "sleeping"
                       /\ sleeps' = sleeps + 1

\* (mutant) the failure of the last try is swallowed
FailSwallowedOnLastTry(exc, how) ==
    /\ outcomes' = Append(outcomes, Outcome(how))
    /\ IF exc.type = "BotErrorNoRetry"
          THEN /\ raised' = exc
               /\ cpc' = "raised"
               /\ sleeps' = sleeps
          ELSE LET allow_retry_after_response == exc.type = "RemoteProtocolError"
               IN  IF try_i = num_tries - 1
                      THEN /\ raised' = raised
                           /\ cpc' = "returned"
                           /\ sleeps' = sleeps
                   ELSE IF got_response /\ ~allow_retry_after_response
                      THEN /\ raised' = RaisedFor(exc)
                           /\ cpc' = "raised"
                           /\ sleeps' = sleeps
                      ELSE /\ raised' = raised
                           /\ cpc' = "sleeping"
                           /\ sleeps' = sleeps + 1

\* (mutant) the last try is taken to be i == num_tries
FailOffByOne(exc, how) ==
    /\ outcomes' = Append(outcomes, Outcome(how))
    /\ IF exc.type = "BotErrorNoRetry"
          THEN /\ raised' = exc
               /\ cpc' = "raised"
               /\ sleeps' = sleeps
          ELSE LET allow_retry_after_response == exc.type = "RemoteProtocolError"
               IN  IF (got_response /\ ~allow_retry_after_response)
                      \/ try_i = num_tries
                      THEN /\ raised' = RaisedFor(exc)
                           /\ cpc' = "raised"
                           /\ sleeps' = sleeps
                      ELSE /\ raised' = raised
                           /\ cpc' = "sleeping"
                           /\ sleeps' = sleeps + 1

\* (mutant) BotErrorNoRetry is handled like any other exception
FailRetriesNoRetry(exc, how) ==
    /\ outcomes' = Append(outcomes, Outcome(how))
    /\ LET allow_retry_after_response == exc.type = "RemoteProtocolError"
       IN  IF (got_response /\ ~allow_retry_after_response)
              \/ try_i = num_tries - 1
              THEN /\ raised' = RaisedFor(exc)
                   /\ cpc' = "raised"
                   /\ sleeps' = sleeps
              ELSE /\ raised' = raised
                   /\ cpc' = "sleeping"
                   /\ sleeps' = sleeps + 1

\* the except clauses of stream_request_base, client.py 649-666
Fail(exc, how) ==
    /\ outcomes' = Append(outcomes, Outcome(how))
    /\ IF exc.type = "BotErrorNoRetry"
          THEN /\ raised' = exc
               /\ cpc' = "raised"
               /\ sleeps' = sleeps
          ELSE LET allow_retry_after_response == exc.type = "RemoteProtocolError"
               IN  IF (got_response /\ ~allow_retry_after_response)
                      \/ try_i = num_tries - 1
                      THEN /\ raised' = RaisedFor(exc)
                           /\ cpc' = "raised"
                           /\ sleeps' = sleeps
                      ELSE /\ raised' = raised
                           /\ cpc' = "sleeping"
                           /\ sleeps' = sleeps + 1

\* stream_request_base is called
StartRequest ==
    /\ cpc = "loop"
    /\ BeginAttempt(0)
    /\ UNCHANGED <<num_tries, tools, got_response, late, yielded, reports,
                   outcomes, sleeps, raised, final_chunks>>

\* asyncio.sleep(retry_sleep_time) returns and the loop goes on
Retry ==
    /\ cpc = "sleeping"
    /\ BeginAttempt(try_i + 1)
    /\ UNCHANGED <<num_tries, tools, got_response, late, yielded, reports,
                   outcomes, sleeps, raised, final_chunks>>

\* the attempt reads one event; what it yields goes through stream_request_base
\* to get_final_response
Receive(event, max_events) ==
    /\ cpc = "streaming"
    /\ LET r == Process(event)
       IN  /\ r.kind \in {"yield", "continue"} => EventsRead < max_events
           /\ event_count' = event_count + 1
           /\ received' = Append(received, event)
           /\ effects' = Append(effects,
                [kind |-> r.kind,
                 yields |-> IF r.kind = "yield" THEN 1 ELSE 0,
                 msg |-> r.msg,
                 exc |-> r.exc,
                 reports |-> Len(r.reports),
                 chunks |-> r.chunks,
                 error_reported |-> r.error_reported,
                 final_chunks |-> IF r.kind = "yield"
                                     THEN FinalChunksAfter(final_chunks, r.msg)
                                     ELSE final_chunks])
           /\ reports' = reports \o r.reports
           /\ chunks' = r.chunks
           /\ error_reported' = r.error_reported
           /\ IF r.kind = "yield"
                 THEN /\ got_response' = TRUE
                      /\ yielded' = Append(yielded, r.msg)
                      /\ final_chunks' = FinalChunksAfter(final_chunks, r.msg)
                 ELSE UNCHANGED <<got_response, yielded, final_chunks>>
           /\ IF r.kind = "raise" THEN Fail(r.exc, r.exc.type)
              ELSE IF r.kind = "return"
                  THEN /\ cpc' = "returned"
                       /\ outcomes' = Append(outcomes, Outcome("done"))
                       /\ UNCHANGED <<raised, sleeps>>
              ELSE UNCHANGED <<cpc, outcomes, raised, sleeps>>
    /\ final_result' = FinalResultOf(cpc', raised', final_chunks')
    /\ UNCHANGED <<num_tries, tools, try_i, late, attempts>>

\* the stream ends without done and nothing is reported
StreamEndsSilently ==
    /\ cpc = "streaming"
    /\ reports' = reports
    /\ cpc' = "returned"
    /\ outcomes' = Append(outcomes, Outcome("exhausted"))
    /\ final_result' = FinalResultOf(cpc', raised, final_chunks)
    /\ UNCHANGED <<num_tries, tools, try_i, got_response, chunks, event_count,
                   error_reported, received, effects, late, yielded, attempts,
                   sleeps, raised, final_chunks>>

\* the event stream ends without done, client.py 318-320: report_error calls
\* on_error and its POST is answered, client.py 90-108
StreamEnds ==
    /\ cpc = "streaming"
    /\ reports' = Append(reports, "Bot exited without sending 'done' event")
    /\ cpc' = "returned"
    /\ outcomes' = Append(outcomes, Outcome("exhausted"))
    /\ final_result' = FinalResultOf(cpc', raised, final_chunks)
    /\ UNCHANGED <<num_tries, tools, try_i, got_response, chunks, event_count,
                   error_reported, received, effects, late, yielded, attempts,
                   sleeps, raised, final_chunks>>

\* the event stream ends without done and the POST of report_error raises
\* (client.py 100-108, awaited unguarded at 318-320): the exception leaves
\* perform_query_request and reaches the except branch of stream_request_base
ExitReportFails(type) ==
    /\ cpc = "streaming"
    /\ reports' = Append(reports, "Bot exited without sending 'done' event")
    /\ Fail(Exc(type, None), type)
    /\ final_result' = FinalResultOf(cpc', raised', final_chunks)
    /\ UNCHANGED <<num_tries, tools, try_i, got_response, chunks, event_count,
                   error_reported, received, effects, late, yielded, attempts,
                   final_chunks>>

\* httpx raises while the request is opened or the stream is read
TransportFails(type) ==
    /\ cpc = "streaming"
    /\ Fail(Exc(type, None), type)
    /\ final_result' = FinalResultOf(cpc', raised', final_chunks)
    /\ UNCHANGED <<num_tries, tools, try_i, got_response, chunks, event_count,
                   error_reported, received, effects, late, yielded, reports,
                   attempts, final_chunks>>

\* the peer sends an event after the attempt has returned on done: nothing reads it
LateEvent(event) ==
    /\ cpc = "returned"
    /\ received # <<>> /\ received[Len(received)].event = "done"
    /\ late = <<>>
    /\ late' = <<event>>
    /\ UNCHANGED <<num_tries, tools, cpc, try_i, got_response, chunks, event_count,
                   error_reported, received, effects, yielded, reports, outcomes,
                   attempts, sleeps, raised, final_chunks, final_result>>

(***************************************************************************)
(* The events and failures the modelled peers choose from.                 *)
(***************************************************************************)
ErrorEventAllowRetry(b) == ServerSentEvent("error", json_dumps("allow_retry" :> JBool(b)))

\* the retry loop: well-formed events, and text events with malformed data
RetryEvents ==
    { text_event("a"), replace_response_event("c"), suggested_reply_event("s"),
      meta_event("text/markdown", FALSE, TRUE, TRUE), done_event,
      ErrorEventAllowRetry(TRUE), ErrorEventAllowRetry(FALSE),
      ServerSentEvent("text", InvalidJson),
      ServerSentEvent("text", NonDictJson),
      ServerSentEvent("text", json_dumps("text" :> JInt(1))) }

\* one attempt: every event kind, with well-formed and malformed data
AttemptEvents ==
    { done_event, ServerSentEvent("done", InvalidJson),
      text_event("a"), text_event("b"),
      ServerSentEvent("text", json_dumps("text" :> JInt(1))),
      ServerSentEvent("text", json_dumps(EmptyDict)),
      ServerSentEvent("text", NonDictJson),
      replace_response_event("c"), suggested_reply_event("s"),
      meta_event("text/markdown", FALSE, TRUE, TRUE),
      ServerSentEvent("meta", json_dumps("linkify" :> JStr("banana"))),
      ServerSentEvent("meta", InvalidJson),
      ErrorEventAllowRetry(TRUE), ErrorEventAllowRetry(FALSE),
      ServerSentEvent("error", json_dumps(EmptyDict)),
      ServerSentEvent("ping", json_dumps(EmptyDict)),
      ServerSentEvent("ping", InvalidJson),
      ServerSentEvent("bad", json_dumps("text" :> JStr("a"))),
      ServerSentEvent("bad", InvalidJson),
      data_event("md"),
      ServerSentEvent("json", json_dumps("k" :> JStr("v"))),
      file_event("url1", "image/png", "name", "ref1") }

LateEvents == { text_event("b"), ErrorEventAllowRetry(FALSE) }

TransportErrors == {"RemoteProtocolError", "ConnectError"}

\* events that leave an attempt running, over all the attempts of a request
MaxEvents == 3
\* the largest num_tries
MaxTries == 3

InitClient(tries, toolses) ==
    /\ num_tries \in tries
    /\ tools \in toolses
    /\ cpc = "loop"
    /\ try_i = 0
    /\ got_response = FALSE
    /\ chunks = <<>>
    /\ event_count = 0
    /\ error_reported = FALSE
    /\ received = <<>>
    /\ effects = <<>>
    /\ late = <<>>
    /\ yielded = <<>>
    /\ reports = <<>>
    /\ outcomes = <<>>
    /\ attempts = 0
    /\ sleeps = 0
    /\ raised = NoExc
    /\ final_chunks = <<>>
    /\ final_result = NoResult

(***************************************************************************)
(* client.py: _stream_request_with_tools and _get_tool_results.            *)
(***************************************************************************)
VARIABLES
    tool_executables,       \* the tool_executables argument: whether it is
                            \* None, and the executables' names
    tpc,                    \* _stream_request_with_tools: "first", "executing",
                            \* "second", "done" or "raised"
    aggregated_tool_calls,  \* aggregated_tool_calls, in insertion order
    first_stream,           \* the messages the first stream_request_base yielded
    forwarded,              \* the messages yielded to the caller
    invoked,                \* the ids of the tool calls whose executable ran
    tool_results,           \* _get_tool_results: tool_results
    second_requests,        \* the tool_calls and tool_results of each second call
                            \* of stream_request_base
    second_stream,          \* the messages the second stream_request_base yielded
    traised                 \* the exception _stream_request_with_tools raised

tvars == <<tool_executables, tpc, aggregated_tool_calls, first_stream, forwarded,
           invoked, tool_results, second_requests, second_stream, traised>>

\* ToolCallDefinitionDelta, types.py 431-458
ToolCallDefinitionDelta(index, id, type, name, arguments) ==
    [index |-> index, id |-> id, type |-> type,
     function |-> [name |-> name, arguments |-> arguments]]

\* ToolCallDefinition, types.py 410-428, under the index that keys it
ToolCallDefinition(index, id, type, name, arguments) ==
    [index |-> index, id |-> id, type |-> type,
     function |-> [name |-> name, arguments |-> arguments]]

\* a message whose data is None or has no choices: BotMessage(text=, index=)
TextMessage(text, index) == [kind |-> "plain", text |-> text, index |-> index]

PlainMessage == TextMessage("", None)

\* a message whose data is an OpenAI chunk: choices[0].finish_reason and, in
\* choices[0].delta, tool_calls or content
Chunk(finish_reason, has_tool_calls, tool_calls, content) ==
    [kind |-> "chunk", finish_reason |-> finish_reason,
     has_tool_calls |-> has_tool_calls, tool_calls |-> tool_calls,
     content |-> content, index |-> None]

\* the same message with BotMessage.index set (perform_query_request takes it
\* from the event's "index" field)
WithIndex(message, index) == [message EXCEPT !.index = index]

\* (mutant) the yielded tool calls lose the index of the incoming message
ToolCallsMessageNoIndex(tool_call_deltas, index) ==
    [kind |-> "tool_calls", text |-> "", tool_calls |-> tool_call_deltas,
     index |-> None]

\* BotMessage(text="", tool_calls=tool_call_deltas, index=message.index),
\* client.py 536-540
ToolCallsMessage(tool_call_deltas, index) ==
    [kind |-> "tool_calls", text |-> "", tool_calls |-> tool_call_deltas,
     index |-> index]

\* BotMessage(text=content, index=message.index), client.py 568-571
ContentMessage(content, index) ==
    [kind |-> "text", text |-> content, index |-> index]

IndexOf(agg, index) == {k \in DOMAIN agg : agg[k].index = index}

\* (mutant) a later delta replaces the arguments
AggregateDeltaReplacing(agg, delta) ==
    IF IndexOf(agg, delta.index) # {}
        THEN LET k == CHOOSE k \in IndexOf(agg, delta.index) : TRUE
             IN  [agg EXCEPT ![k].function.arguments = delta.function.arguments]
    ELSE IF delta.id = None \/ delta.type = None \/ delta.function.name = None
        THEN agg
    ELSE Append(agg, ToolCallDefinition(delta.index, delta.id, delta.type,
                                        delta.function.name,
                                        delta.function.arguments))

\* the body of `for tool_call_delta in tool_call_deltas`, client.py 542-565
AggregateDelta(agg, delta) ==
    IF IndexOf(agg, delta.index) # {}
        THEN LET k == CHOOSE k \in IndexOf(agg, delta.index) : TRUE
             IN  [agg EXCEPT ![k].function.arguments = @ \o delta.function.arguments]
    ELSE IF delta.id = None \/ delta.type = None \/ delta.function.name = None
        THEN agg
    ELSE Append(agg, ToolCallDefinition(delta.index, delta.id, delta.type,
                                        delta.function.name,
                                        delta.function.arguments))

RECURSIVE Aggregate(_, _)
Aggregate(agg, deltas) ==
    IF deltas = <<>> THEN agg
    ELSE Aggregate(AggregateDelta(agg, Head(deltas)), Tail(deltas))

\* json.loads(tool_call.function.arguments) raises; of the strings the modelled
\* fragments build, "{}" alone is a JSON text
JsonLoadsRaises(arguments) == arguments # "{}"

\* (mutant) the result carries the function name as tool_call_id
ToolResultNamedId(tool_call) ==
    [role |-> "tool", tool_call_id |-> tool_call.function.name,
     name |-> tool_call.function.name,
     content |-> "result of " \o tool_call.function.name]

\* ToolResultDefinition(...) in _get_tool_results, client.py 470-477
ToolResultDefinition(tool_call) ==
    [role |-> "tool", tool_call_id |-> tool_call.id,
     name |-> tool_call.function.name,
     content |-> "result of " \o tool_call.function.name]

\* tool_executables: None, or a list of functions with these names
NoExecutables == [is_none |-> TRUE, names |-> <<>>]
Executables(names) == [is_none |-> FALSE, names |-> names]

\* the keys of tool_executables_dict, client.py 457-459
Names(executables) == {executables.names[k] : k \in DOMAIN executables.names}

\* the first stream yields a message, client.py 498-571
FirstStreamMessage(message, max_messages) ==
    /\ tpc = "first"
    /\ Len(first_stream) + Len(second_stream) < max_messages
    /\ first_stream' = Append(first_stream, message)
    /\ IF message.kind = "plain"
          THEN /\ forwarded' = Append(forwarded, message)
               /\ UNCHANGED aggregated_tool_calls
       ELSE IF message.finish_reason # None
          THEN UNCHANGED <<forwarded, aggregated_tool_calls>>
       ELSE IF message.has_tool_calls
          THEN IF tool_executables.is_none
                  THEN /\ forwarded' = Append(forwarded,
                                              ToolCallsMessage(message.tool_calls,
                                                               message.index))
                       /\ UNCHANGED aggregated_tool_calls
                  ELSE /\ aggregated_tool_calls' =
                              Aggregate(aggregated_tool_calls, message.tool_calls)
                       /\ UNCHANGED forwarded
       ELSE IF message.content # None
          THEN /\ forwarded' = Append(forwarded,
                                   ContentMessage(message.content, message.index))
               /\ UNCHANGED aggregated_tool_calls
       ELSE UNCHANGED <<forwarded, aggregated_tool_calls>>
    /\ UNCHANGED <<tool_executables, tpc, invoked, tool_results, second_requests,
                   second_stream, traised>>

\* the first stream ends, client.py 573-577
FirstStreamEnds ==
    /\ tpc = "first"
    /\ tpc' = IF tool_executables.is_none \/ tool_executables.names = <<>>
                 THEN "done" ELSE "executing"
    /\ UNCHANGED <<tool_executables, aggregated_tool_calls, first_stream, forwarded,
                   invoked, tool_results, second_requests, second_stream, traised>>

\* either stream_request_base raises
StreamRaises ==
    /\ tpc \in {"first", "second"}
    /\ tpc' = "raised"
    /\ traised' = "BotError"
    /\ UNCHANGED <<tool_executables, aggregated_tool_calls, first_stream, forwarded,
                   invoked, tool_results, second_requests, second_stream>>

\* one turn of `for tool_call in tool_calls`, client.py 461-477
InvokeExecutable ==
    /\ tpc = "executing"
    /\ Len(tool_results) < Len(aggregated_tool_calls)
    /\ LET tool_call == aggregated_tool_calls[Len(tool_results) + 1]
       IN  IF JsonLoadsRaises(tool_call.function.arguments)
              THEN /\ tpc' = "raised"
                   /\ traised' = "JSONDecodeError"
                   /\ UNCHANGED <<invoked, tool_results>>
           ELSE IF tool_call.function.name \notin Names(tool_executables)
              THEN /\ tpc' = "raised"
                   /\ traised' = "KeyError"
                   /\ UNCHANGED <<invoked, tool_results>>
           ELSE /\ invoked' = Append(invoked, tool_call.id)
                /\ tool_results' = Append(tool_results, ToolResultDefinition(tool_call))
                /\ UNCHANGED <<tpc, traised>>
    /\ UNCHANGED <<tool_executables, aggregated_tool_calls, first_stream, forwarded,
                   second_requests, second_stream>>

\* (mutant) the second request is issued whatever was aggregated
AfterToolResultsAlwaysSecond ==
    /\ tpc = "executing"
    /\ Len(tool_results) = Len(aggregated_tool_calls)
    /\ second_requests' = Append(second_requests,
                                 [tool_calls |-> aggregated_tool_calls,
                                  tool_results |-> tool_results])
    /\ tpc' = "second"
    /\ UNCHANGED <<tool_executables, aggregated_tool_calls, first_stream, forwarded,
                   invoked, tool_results, second_stream, traised>>

\* _get_tool_results has returned, client.py 578-597
AfterToolResults ==
    /\ tpc = "executing"
    /\ Len(tool_results) = Len(aggregated_tool_calls)
    /\ IF aggregated_tool_calls # <<>> /\ tool_results # <<>>
          THEN /\ second_requests' = Append(second_requests,
                     [tool_calls |-> aggregated_tool_calls,
                      tool_results |-> tool_results])
               /\ tpc' = "second"
          ELSE /\ tpc' = "done"
               /\ UNCHANGED second_requests
    /\ UNCHANGED <<tool_executables, aggregated_tool_calls, first_stream, forwarded,
                   invoked, tool_results, second_stream, traised>>

\* the second stream yields a message, client.py 583-599
SecondStreamMessage(message, max_messages) ==
    /\ tpc = "second"
    /\ Len(first_stream) + Len(second_stream) < max_messages
    /\ second_stream' = Append(second_stream, message)
    /\ forwarded' = Append(forwarded, message)
    /\ UNCHANGED <<tool_executables, tpc, aggregated_tool_calls, first_stream,
                   invoked, tool_results, second_requests, traised>>

SecondStreamEnds ==
    /\ tpc = "second"
    /\ tpc' = "done"
    /\ UNCHANGED <<tool_executables, aggregated_tool_calls, first_stream, forwarded,
                   invoked, tool_results, second_requests, second_stream, traised>>

\* the deltas the modelled bot chooses from, for one index
DeltasAt(index) ==
    { ToolCallDefinitionDelta(index, "c1", "function", "f", ""),
      ToolCallDefinitionDelta(index, "c2", "function", "g", "{"),
      ToolCallDefinitionDelta(index, None, None, None, "{"),
      ToolCallDefinitionDelta(index, None, None, None, "}"),
      ToolCallDefinitionDelta(index, "c1", None, "f", "{"),
      ToolCallDefinitionDelta(index, "c1", "function", None, "}") }

FirstMessages ==
    { PlainMessage,
      TextMessage("t", "1"),
      Chunk(None, FALSE, <<>>, "hi"),
      WithIndex(Chunk(None, FALSE, <<>>, "yo"), "1"),
      Chunk("stop", FALSE, <<>>, "bye"),
      WithIndex(Chunk(None, TRUE,
                      <<ToolCallDefinitionDelta(0, None, None, None, "}")>>, None),
                "1"),
      Chunk("tool_calls", TRUE,
            <<ToolCallDefinitionDelta(0, None, None, None, "}")>>, None),
      Chunk(None, TRUE,
            <<ToolCallDefinitionDelta(0, "c1", "function", "f", "{"),
              ToolCallDefinitionDelta(1, "c2", "function", "g", "{}")>>, None) }
    \cup { Chunk(None, TRUE, <<delta>>, None) :
               delta \in DeltasAt(0) \cup DeltasAt(1) }

SecondMessages ==
    { PlainMessage,
      Chunk(None, TRUE,
            <<ToolCallDefinitionDelta(0, "c1", "function", "f", "{}")>>, None) }

ExecutableLists ==
    { NoExecutables, Executables(<<>>), Executables(<<"f">>),
      Executables(<<"f", "g">>) }

\* messages of the two streams of one call
MaxMessages == 3

InitTools(executable_lists) ==
    /\ tool_executables \in executable_lists
    /\ tpc = "first"
    /\ aggregated_tool_calls = <<>>
    /\ first_stream = <<>>
    /\ forwarded = <<>>
    /\ invoked = <<>>
    /\ tool_results = <<>>
    /\ second_requests = <<>>
    /\ second_stream = <<>>
    /\ traised = None

(***************************************************************************)
(* base.py: the cost channel, PoeBot.authorize_cost / capture_cost and     *)
(* PoeBot._cost_requests_inner.                                            *)
(***************************************************************************)
VARIABLES
    self_access_key,    \* PoeBot.access_key of the bot that makes the call
    cost_pc,            \* "idle", "connecting", "reading", "returned", "raised"
    cost_call,          \* the call: authorize or capture, request.bot_query_id
    cost_posts,         \* the HTTP requests sent: url and access_key
    event_source,       \* the response: status_code, its events, how many are
                        \* read, and the error_pieces collected from them
    cost_raised         \* the exception the call raised: class and message

kvars == <<self_access_key, cost_pc, cost_call, cost_posts, event_source,
           cost_raised>>

NoCostCall == [op |-> None, bot_query_id |-> ""]
NoResponse == [status_code |-> 0, events |-> <<>>, read |-> 0,
               error_pieces |-> <<>>]
CostExc(type, msg) == [type |-> type, msg |-> msg]

\* f"{base_url}bot/cost/{request.bot_query_id}/authorize" (or /capture)
CostUrl(bot_query_id, op) == "bot/cost/" \o bot_query_id \o "/" \o op

ReasonPhrase(status_code) == IF status_code = 200 THEN "OK" ELSE "Bad Request"

\* (mutant) the bot_query_id is looked at before the access key
CostCallQueryIdFirst(op, bot_query_id) ==
    /\ cost_pc = "idle"
    /\ cost_call' = [op |-> op, bot_query_id |-> bot_query_id]
    /\ IF Falsy(bot_query_id)
          THEN /\ cost_pc' = "raised"
               /\ cost_raised' = CostExc("InvalidParameterError",
                      "bot_query_id is required to make cost requests.")
               /\ UNCHANGED cost_posts
       ELSE IF Falsy(self_access_key)
          THEN /\ cost_pc' = "raised"
               /\ cost_raised' = CostExc("CostRequestError",
                      "Please provide the bot access_key when make_app is called.")
               /\ UNCHANGED cost_posts
       ELSE /\ cost_pc' = "connecting"
            /\ cost_posts' = Append(cost_posts,
                   [url |-> CostUrl(bot_query_id, op),
                    access_key |-> self_access_key])
            /\ UNCHANGED cost_raised
    /\ UNCHANGED <<self_access_key, event_source>>

\* authorize_cost / capture_cost up to the POST, base.py 633-646, 669-682,
\* 689-698
CostCall(op, bot_query_id) ==
    /\ cost_pc = "idle"
    /\ cost_call' = [op |-> op, bot_query_id |-> bot_query_id]
    /\ IF Falsy(self_access_key)
          THEN /\ cost_pc' = "raised"
               /\ cost_raised' = CostExc("CostRequestError",
                      "Please provide the bot access_key when make_app is called.")
               /\ UNCHANGED cost_posts
       ELSE IF Falsy(bot_query_id)
          THEN /\ cost_pc' = "raised"
               /\ cost_raised' = CostExc("InvalidParameterError",
                      "bot_query_id is required to make cost requests.")
               /\ UNCHANGED cost_posts
       ELSE /\ cost_pc' = "connecting"
            /\ cost_posts' = Append(cost_posts,
                   [url |-> CostUrl(bot_query_id, op),
                    access_key |-> self_access_key])
            /\ UNCHANGED cost_raised
    /\ UNCHANGED <<self_access_key, event_source>>

\* the response arrives: event_source.response.status_code, and the events
\* aiter_sse will deliver
CostResponse(status_code, events) ==
    /\ cost_pc = "connecting"
    /\ cost_pc' = "reading"
    /\ event_source' = [status_code |-> status_code, events |-> events,
                        read |-> 0, error_pieces |-> <<>>]
    /\ UNCHANGED <<self_access_key, cost_call, cost_posts, cost_raised>>

CostRaise(type, msg) ==
    /\ cost_pc' = "raised"
    /\ cost_raised' = CostExc(type, msg)

\* one event of aiter_sse, base.py 699-713: of a response that is not 200 in
\* the comprehension that builds error_pieces, of a 200 response in the loop
\* that looks for the `result` event
CostEvent ==
    /\ cost_pc = "reading"
    /\ event_source.read < Len(event_source.events)
    /\ LET event == event_source.events[event_source.read + 1]
           data == event.data
       IN  /\ event_source' = [event_source EXCEPT
                  !.read = @ + 1,
                  !.error_pieces =
                      IF event_source.status_code # 200 /\ data.kind = "object"
                          THEN Append(@, Get(data.obj, "message", JStr("")))
                          ELSE @]
           /\ IF event_source.status_code # 200
                 THEN IF data.kind = "invalid"
                         THEN CostRaise("JSONDecodeError", "")
                      ELSE IF data.kind = "nondict"
                         THEN CostRaise("AttributeError", "")
                      ELSE UNCHANGED <<cost_pc, cost_raised>>
              ELSE IF event.event # "result"
                 THEN UNCHANGED <<cost_pc, cost_raised>>
              ELSE IF data.kind = "invalid"
                 THEN CostRaise("JSONDecodeError", "")
              ELSE IF data.kind = "nondict"
                 THEN CostRaise("TypeError", "")
              ELSE IF "status" \notin DOMAIN data.obj
                 THEN CostRaise("KeyError", "status")
              ELSE IF data.obj["status"] = JStr("success")
                 THEN cost_pc' = "returned" /\ UNCHANGED cost_raised
              ELSE CostRaise("InsufficientFundError", "")
    /\ UNCHANGED <<self_access_key, cost_call, cost_posts>>

\* ''.join(error_pieces)
RECURSIVE JoinPieces(_)
JoinPieces(pieces) ==
    IF pieces = <<>> THEN "" ELSE Head(pieces).v \o JoinPieces(Tail(pieces))

\* the events are exhausted, base.py 704-707 (not 200) and 714 with 647 / 683
\* (`return False`, `if not result: raise InsufficientFundError()`)
CostStreamEnds ==
    /\ cost_pc = "reading"
    /\ event_source.read = Len(event_source.events)
    /\ IF event_source.status_code = 200
          THEN CostRaise("InsufficientFundError", "")
       ELSE IF \E k \in DOMAIN event_source.error_pieces :
                   event_source.error_pieces[k].t # "str"
          THEN CostRaise("TypeError", "")
       ELSE CostRaise("CostRequestError",
                ToString(event_source.status_code) \o " "
                    \o ReasonPhrase(event_source.status_code) \o ": "
                    \o JoinPieces(event_source.error_pieces))
    /\ UNCHANGED <<self_access_key, cost_call, cost_posts, event_source>>

\* httpx raises while connecting or reading: logged and re-raised, base.py
\* 715-719
CostHTTPError ==
    /\ cost_pc \in {"connecting", "reading"}
    /\ CostRaise("HTTPError", "")
    /\ UNCHANGED <<self_access_key, cost_call, cost_posts, event_source>>

\* the values the model chooses from
AccessKeys == {None, "", "key"}
BotQueryIds == {"", "q1"}
CostOps == {"authorize", "capture"}
StatusCodes == {200, 400}
ResultEvent(status) == ServerSentEvent("result", json_dumps([status |-> JStr(status)]))
CostEvents ==
    { ResultEvent("success"),
      ResultEvent("insufficient funds"),
      ServerSentEvent("result", json_dumps(EmptyDict)),
      ServerSentEvent("result", InvalidJson),
      ServerSentEvent("result", NonDictJson),
      ServerSentEvent("error", json_dumps([message |-> JStr("m")])),
      ServerSentEvent("error", json_dumps([message |-> JNull])),
      ServerSentEvent("ping", InvalidJson) }

\* events of one response
MaxCostEvents == 2

RECURSIVE SeqsUpTo(_, _)
SeqsUpTo(set, n) ==
    IF n = 0 THEN {<<>>}
    ELSE LET shorter == SeqsUpTo(set, n - 1)
         IN  shorter \cup {Append(seq, x) : seq \in shorter, x \in set}

InitCost(access_keys) ==
    /\ self_access_key \in access_keys
    /\ cost_pc = "idle"
    /\ cost_call = NoCostCall
    /\ cost_posts = <<>>
    /\ event_source = NoResponse
    /\ cost_raised = CostExc(None, "")

(***************************************************************************)
(* base.py: make_app (run calls it first), _verify_access_key and          *)
(* _find_access_key.                                                       *)
(***************************************************************************)
VARIABLES
    environ,        \* os.environ: POE_ACCESS_KEY and POE_API_KEY
    app_pc,         \* "idle", "bots" (in the loop over the bots), "returned",
                    \* "exited" (sys.exit(1)) or "raised" (ValueError)
    app_args,       \* the arguments of make_app
    bots,           \* the PoeBot objects: path, access_key, bot_name
    routes,         \* the paths _add_routes_for_bot added to the app
    synced          \* the bot names a settings sync was attempted for

avars == <<environ, app_pc, app_args, bots, routes, synced>>

\* a string of 32 characters
Key32 == "0123456789abcdef0123456789abcdef"

PoeBot(path, access_key, bot_name) ==
    [path |-> path, access_key |-> access_key, bot_name |-> bot_name]

\* _find_access_key, base.py 891-925
find_access_key(access_key, api_key, env) ==
    IF ~Falsy(access_key) THEN access_key
    ELSE IF ~Falsy(env.POE_ACCESS_KEY) THEN env.POE_ACCESS_KEY
    ELSE IF ~Falsy(api_key) THEN api_key
    ELSE IF ~Falsy(env.POE_API_KEY) THEN env.POE_API_KEY
    ELSE None

\* (mutant) a key of any length is accepted
verify_access_key_exits_never_on_length(access_key, api_key, allow_without_key, env) ==
    Falsy(find_access_key(access_key, api_key, env)) /\ ~allow_without_key

\* _verify_access_key, base.py 928-946: whether it calls sys.exit(1)
verify_access_key_exits(access_key, api_key, allow_without_key, env) ==
    LET _access_key == find_access_key(access_key, api_key, env)
    IN  IF Falsy(_access_key) THEN ~allow_without_key
        ELSE Len(_access_key) # 32

\* _verify_access_key: what it returns when it returns
verify_access_key(access_key, api_key, allow_without_key, env) ==
    LET _access_key == find_access_key(access_key, api_key, env)
    IN  IF Falsy(_access_key) THEN None ELSE _access_key

Paths(bs) == {bs[k].path : k \in DOMAIN bs}

\* make_app up to the loop over the bots, base.py 1049-1093
MakeApp(bot, is_list, access_key, bot_name, api_key, allow_without_key) ==
    /\ app_pc = "idle"
    /\ app_args' = [bot |-> bot, is_list |-> is_list, access_key |-> access_key,
                    bot_name |-> bot_name, api_key |-> api_key,
                    allow_without_key |-> allow_without_key]
    /\ IF ~is_list
          THEN IF bot[1].access_key = None
                      /\ verify_access_key_exits(access_key, api_key,
                                                 allow_without_key, environ)
                  THEN app_pc' = "exited" /\ bots' = bot
               ELSE IF bot[1].access_key # None
                         /\ (~Falsy(access_key) \/ ~Falsy(api_key))
                  THEN app_pc' = "raised" /\ bots' = bot
               ELSE LET key == IF bot[1].access_key = None
                                  THEN verify_access_key(access_key, api_key,
                                                         allow_without_key, environ)
                                  ELSE bot[1].access_key
                    IN  IF bot[1].bot_name # None /\ ~Falsy(bot_name)
                           THEN /\ app_pc' = "raised"
                                /\ bots' = <<[bot[1] EXCEPT !.access_key = key]>>
                           ELSE /\ app_pc' = "bots"
                                /\ bots' = <<[bot[1] EXCEPT
                                       !.access_key = key,
                                       !.bot_name = IF @ = None THEN bot_name ELSE @]>>
       ELSE /\ bots' = bot
            /\ app_pc' =
                 IF ~Falsy(access_key) \/ ~Falsy(api_key) \/ ~Falsy(bot_name)
                     THEN "raised"
                 ELSE IF Cardinality(Paths(bot)) < Len(bot) THEN "raised"
                 ELSE "bots"
    /\ UNCHANGED <<environ, routes, synced>>

\* one turn of `for bot_obj in bots`, base.py 1094-1128
MakeAppBot ==
    /\ app_pc = "bots"
    /\ Len(routes) < Len(bots)
    /\ LET bot_obj == bots[Len(routes) + 1]
       IN  IF bot_obj.access_key = None /\ ~app_args.allow_without_key
              THEN /\ app_pc' = "raised"
                   /\ UNCHANGED <<routes, synced>>
              ELSE /\ routes' = Append(routes, bot_obj.path)
                   /\ synced' = IF Falsy(bot_obj.bot_name) \/ Falsy(bot_obj.access_key)
                                   THEN synced
                                   ELSE Append(synced, bot_obj.bot_name)
                   /\ UNCHANGED app_pc
    /\ UNCHANGED <<environ, app_args, bots>>

\* `return app`, base.py 1132
MakeAppReturns ==
    /\ app_pc = "bots"
    /\ Len(routes) = Len(bots)
    /\ app_pc' = "returned"
    /\ UNCHANGED <<environ, app_args, bots, routes, synced>>

\* the values the model chooses from
KeyArguments == {"", "short", Key32}
EnvironValues == {None, "short", Key32}
BotKeys == {None, "", "short", Key32}
BotNames == {None, "b"}
NameArguments == {"", "n"}
ListedBots == {PoeBot(path, access_key, "b") :
                   path \in {"/a", "/b"}, access_key \in {None, "short", Key32}}

\* bots served by one app
MaxBots == 2

NoAppArgs == [bot |-> <<>>, is_list |-> FALSE, access_key |-> "", bot_name |-> "",
              api_key |-> "", allow_without_key |-> FALSE]

InitApp(environ_values) ==
    /\ environ \in [POE_ACCESS_KEY : environ_values, POE_API_KEY : environ_values]
    /\ app_pc = "idle"
    /\ app_args = NoAppArgs
    /\ bots = <<>>
    /\ routes = <<>>
    /\ synced = <<>>

(***************************************************************************)
(* base.py: PoeBot.make_prompt_author_role_alternated.                     *)
(***************************************************************************)
VARIABLES
    protocol_messages,  \* the argument of the last call
    new_messages,       \* what that call returned
    alternated          \* how many times the function was applied: the second
                        \* call is given what the first returned

pvars == <<protocol_messages, new_messages, alternated>>

\* Attachment, types.py 61-79
Attachment(url, content_type, name, parsed_content) ==
    [url |-> url, content_type |-> content_type, name |-> name,
     parsed_content |-> parsed_content]

\* ProtocolMessage, types.py 82-121: the fields the functions read
ProtocolMessage(role, content, attachments) ==
    [role |-> role, content |-> content, attachments |-> attachments]

\* the loop over protocol_message.attachments + prev_message.attachments with
\* added_attachment_urls, base.py 595-602
RECURSIVE unique_by_url(_, _)
unique_by_url(attachments, added_attachment_urls) ==
    IF attachments = <<>> THEN <<>>
    ELSE IF Head(attachments).url \in added_attachment_urls
        THEN unique_by_url(Tail(attachments), added_attachment_urls)
    ELSE <<Head(attachments)>>
             \o unique_by_url(Tail(attachments),
                              added_attachment_urls \cup {Head(attachments).url})

\* (mutant) the contents are joined the other way round
new_content_reversed(prev_message, protocol_message) ==
    protocol_message.content \o "\n\n" \o prev_message.content

\* new_content, base.py 593
new_content(prev_message, protocol_message) ==
    prev_message.content \o "\n\n" \o protocol_message.content

\* (mutant) the attachments of the earlier messages are dropped
new_attachments_of_last(prev_message, protocol_message) ==
    unique_by_url(protocol_message.attachments, {})

\* new_attachments, base.py 595-602
new_attachments(prev_message, protocol_message) ==
    unique_by_url(protocol_message.attachments \o prev_message.attachments, {})

\* the body of `for protocol_message in protocol_messages`, base.py 590-610
alternate_message(messages, protocol_message) ==
    IF messages # <<>> /\ protocol_message.role = messages[Len(messages)].role
        THEN LET prev_message == messages[Len(messages)]
             IN  Append(SubSeq(messages, 1, Len(messages) - 1),
                        [prev_message EXCEPT
                            !.content = new_content(prev_message, protocol_message),
                            !.attachments = new_attachments(prev_message,
                                                            protocol_message)])
        ELSE Append(messages, protocol_message)

RECURSIVE alternate_from(_, _)
alternate_from(messages, rest) ==
    IF rest = <<>> THEN messages
    ELSE alternate_from(alternate_message(messages, Head(rest)), Tail(rest))

\* make_prompt_author_role_alternated, base.py 574-612
make_prompt_author_role_alternated(messages) == alternate_from(<<>>, messages)

\* a call of the function
Alternate ==
    /\ alternated = 0
    /\ new_messages' = make_prompt_author_role_alternated(protocol_messages)
    /\ alternated' = 1
    /\ UNCHANGED protocol_messages

\* a call of the function on what the first call returned
AlternateAgain ==
    /\ alternated = 1
    /\ protocol_messages' = new_messages
    /\ new_messages' = make_prompt_author_role_alternated(new_messages)
    /\ alternated' = 2

\* the values the model chooses from
AttachmentLists ==
    { <<>>,
      <<Attachment("u1", "text/plain", "n1", "p")>>,
      <<Attachment("u1", "text/plain", "n2", "p"),
        Attachment("u2", "text/plain", "n3", "p")>>,
      <<Attachment("u3", "text/plain", "n4", "p"),
        Attachment("u3", "text/plain", "n5", "p")>> }

PromptMessages ==
    { ProtocolMessage("user", "a", <<>>),
      ProtocolMessage("bot", "b", <<>>),
      ProtocolMessage("system", "s", <<>>) }
    \cup { ProtocolMessage(role, "c", attachments) :
               role \in {"user", "bot"}, attachments \in AttachmentLists \ {<<>>} }
    \cup { ProtocolMessage("user", "d", <<Attachment("u3", "text/plain", "n6", "p")>>) }

\* messages of one conversation
MaxPrompt == 3

InitPrompt(conversations) ==
    /\ protocol_messages \in conversations
    /\ new_messages = <<>>
    /\ alternated = 0

(***************************************************************************)
(* base.py: PoeBot.insert_attachment_messages.                             *)
(***************************************************************************)
VARIABLES
    query_request,      \* the argument: query (the messages) and message_id
    modified_query,     \* what the call returned
    inserted            \* whether the call was made

ivars == <<query_request, modified_query, inserted>>

QueryRequest(query, msg_id) == [query |-> query, message_id |-> msg_id]

\* templates.py 8-25
TEXT_ATTACHMENT_TEMPLATE(attachment_name, attachment_parsed_content) ==
    "Below is the content of " \o attachment_name \o ":\n\n"
        \o attachment_parsed_content
URL_ATTACHMENT_TEMPLATE(attachment_name, content) ==
    "Assume you can access the external URL " \o attachment_name \o ":\n\n" \o content
IMAGE_VISION_ATTACHMENT_TEMPLATE(filename, parsed_image_description) ==
    "I have uploaded an image (" \o filename \o "). <image_analysis>"
        \o parsed_image_description \o "</image_analysis>"

\* attachment.content_type.startswith("text/"), "image" in
\* attachment.content_type, for the content types of the model
StartsWithText(content_type) == content_type \in {"text/html", "text/plain", "text/csv"}
ContainsImage(content_type) == content_type \in {"image/png", "image/jpeg"}

\* attachment.parsed_content.split("***", 1), for the contents of the model: two
\* parts when the separator is there, else one (and the unpacking raises
\* ValueError)
SplitStars(parsed_content) ==
    IF parsed_content = "f.png***a cat" THEN <<"f.png", "a cat">>
    ELSE <<parsed_content>>

\* the message the loop body appends for one attachment, base.py 527-562
attachment_message(attachment) ==
    IF attachment.content_type = "text/html"
        THEN ProtocolMessage("user",
                 URL_ATTACHMENT_TEMPLATE(attachment.name, attachment.parsed_content),
                 <<>>)
    ELSE IF StartsWithText(attachment.content_type)
              \/ attachment.content_type = "application/pdf"
        THEN ProtocolMessage("user",
                 TEXT_ATTACHMENT_TEMPLATE(attachment.name, attachment.parsed_content),
                 <<>>)
    ELSE LET parts == SplitStars(attachment.parsed_content)
         IN  IF Len(parts) = 2
                THEN ProtocolMessage("user",
                         IMAGE_VISION_ATTACHMENT_TEMPLATE(parts[1], parts[2]), <<>>)
                ELSE ProtocolMessage("user",
                         IMAGE_VISION_ATTACHMENT_TEMPLATE(attachment.name,
                                                          attachment.parsed_content),
                         <<>>)

\* which list the loop body appends to: "text", "image" or "none"
attachment_list(attachment) ==
    IF Falsy(attachment.parsed_content) THEN "none"
    ELSE IF attachment.content_type = "text/html" THEN "text"
    ELSE IF StartsWithText(attachment.content_type)
              \/ attachment.content_type = "application/pdf" THEN "text"
    ELSE IF ContainsImage(attachment.content_type) THEN "image"
    ELSE "none"

RECURSIVE attachment_messages(_, _)
attachment_messages(attachments, list) ==
    IF attachments = <<>> THEN <<>>
    ELSE (IF attachment_list(Head(attachments)) = list
             THEN <<attachment_message(Head(attachments))>> ELSE <<>>)
          \o attachment_messages(Tail(attachments), list)

\* (mutant) the messages are inserted in the order of the attachments
insert_attachment_messages_in_attachment_order(request) ==
    LET last_message == request.query[Len(request.query)]
        parsed == SelectSeq(last_message.attachments,
                            LAMBDA a : attachment_list(a) # "none")
    IN  [request EXCEPT !.query =
            SubSeq(request.query, 1, Len(request.query) - 1)
                \o [k \in DOMAIN parsed |-> attachment_message(parsed[k])]
                \o <<last_message>>]

\* insert_attachment_messages, base.py 508-572
insert_attachment_messages(request) ==
    LET last_message == request.query[Len(request.query)]
        text_attachment_messages ==
            attachment_messages(last_message.attachments, "text")
        image_attachment_messages ==
            attachment_messages(last_message.attachments, "image")
    IN  [request EXCEPT !.query =
            SubSeq(request.query, 1, Len(request.query) - 1)
                \o text_attachment_messages
                \o image_attachment_messages
                \o <<last_message>>]

\* a call of the function
InsertAttachmentMessages ==
    /\ ~inserted
    /\ modified_query' = insert_attachment_messages(query_request)
    /\ inserted' = TRUE
    /\ UNCHANGED query_request

\* the values the model chooses from
ParsedAttachments ==
    { Attachment("u1", "text/html", "page", "html text"),
      Attachment("u2", "text/plain", "a.txt", "plain text"),
      Attachment("u3", "application/pdf", "a.pdf", "pdf text"),
      Attachment("u4", "image/png", "a.png", "f.png***a cat"),
      Attachment("u5", "image/jpeg", "a.jpg", "a dog"),
      Attachment("u6", "video/mp4", "a.mp4", "a film"),
      Attachment("u7", "text/csv", "a.csv", None),
      Attachment("u8", "image/png", "b.png", "") }

EarlierMessages ==
    { <<>>,
      <<ProtocolMessage("user", "a", <<Attachment("u2", "text/plain", "a.txt",
                                                   "plain text")>>)>>,
      <<ProtocolMessage("user", "a", <<>>), ProtocolMessage("bot", "b", <<>>)>> }

\* attachments of the last message
MaxAttachments == 3

NoQuery == QueryRequest(<<>>, "")

InitInsert(earlier, attachment_lists) ==
    /\ query_request \in
          { QueryRequest(before \o <<ProtocolMessage("user", "q", attachments)>>, "m1") :
                before \in earlier, attachments \in attachment_lists }
    /\ modified_query = NoQuery
    /\ inserted = FALSE

(***************************************************************************)
(* sync_utils.py: run_sync.  Two threads take steps: the caller's, and the *)
(* worker of the executor.                                                 *)
(***************************************************************************)
VARIABLES
    running_loop,   \* whether asyncio.get_running_loop() finds a loop in the
                    \* calling thread
    sync_pc,        \* run_sync: "idle", "direct" (in asyncio.run), "waiting"
                    \* (in future.result()), "returned" or "raised"
    sync_args,      \* the arguments: session, whether _executor_factory is
                    \* given, and the coroutine (the awaits it needs and how
                    \* it ends)
    coro,           \* the coroutine: "created", "running" or "done", the thread
                    \* whose loop runs it, the awaits left, how often it was
                    \* started
    executor,       \* "none", "submitted" (the worker has _runner to run),
                    \* "running", "finished" (the future is set), "shutdown"
    sync_result     \* what run_sync returned or raised

yvars == <<running_loop, sync_pc, sync_args, coro, executor, sync_result>>

Coroutine(awaits, ends) == [awaits |-> awaits, ends |-> ends]

NoSyncArgs == [session |-> None, executor_factory |-> FALSE,
               coro |-> Coroutine(0, "result")]
NewCoro(coroutine) ==
    [state |-> "created", thread |-> None, awaits |-> coroutine.awaits, started |-> 0]
NoSyncResult == [how |-> None, what |-> None]

\* (mutant) the session is not looked at
RunSyncAnySession(coroutine, session, executor_factory) ==
    /\ sync_pc = "idle"
    /\ sync_args' = [session |-> session, executor_factory |-> executor_factory,
                     coro |-> coroutine]
    /\ IF ~running_loop
          THEN /\ sync_pc' = "direct"
               /\ coro' = [NewCoro(coroutine) EXCEPT
                              !.state = "running", !.thread = "caller", !.started = 1]
               /\ UNCHANGED <<executor, sync_result>>
          ELSE /\ sync_pc' = "waiting"
               /\ coro' = NewCoro(coroutine)
               /\ executor' = "submitted"
               /\ UNCHANGED sync_result
    /\ UNCHANGED running_loop

\* run_sync up to asyncio.run(coro), the raise, or future.result(),
\* sync_utils.py 49-80
RunSync(coroutine, session, executor_factory) ==
    /\ sync_pc = "idle"
    /\ sync_args' = [session |-> session, executor_factory |-> executor_factory,
                     coro |-> coroutine]
    /\ IF ~running_loop
          THEN /\ sync_pc' = "direct"
               /\ coro' = [NewCoro(coroutine) EXCEPT
                              !.state = "running", !.thread = "caller", !.started = 1]
               /\ UNCHANGED <<executor, sync_result>>
       ELSE IF session # None
          THEN /\ sync_pc' = "raised"
               /\ sync_result' = [how |-> "raised", what |-> "ValueError"]
               /\ coro' = NewCoro(coroutine)
               /\ UNCHANGED executor
       ELSE /\ sync_pc' = "waiting"
            /\ coro' = NewCoro(coroutine)
            /\ executor' = "submitted"
            /\ UNCHANGED sync_result
    /\ UNCHANGED running_loop

\* the worker thread takes _runner: asyncio.run(coro) in a loop of its own,
\* sync_utils.py 64-65
WorkerRuns ==
    /\ executor = "submitted"
    /\ executor' = "running"
    /\ coro' = [coro EXCEPT !.state = "running", !.thread = "worker",
                            !.started = @ + 1]
    /\ UNCHANGED <<running_loop, sync_pc, sync_args, sync_result>>

\* the coroutine passes one of its awaits, in the loop that runs it
CoroAwaits ==
    /\ coro.state = "running"
    /\ coro.awaits > 0
    /\ coro' = [coro EXCEPT !.awaits = @ - 1]
    /\ UNCHANGED <<running_loop, sync_pc, sync_args, executor, sync_result>>

\* the coroutine returns or raises: asyncio.run returns or raises, in the
\* caller (sync_utils.py 52) or in the worker, where it sets the future (65)
CoroEnds ==
    /\ coro.state = "running"
    /\ coro.awaits = 0
    /\ coro' = [coro EXCEPT !.state = "done"]
    /\ IF coro.thread = "caller"
          THEN /\ sync_pc' = IF sync_args.coro.ends = "result"
                                THEN "returned" ELSE "raised"
               /\ sync_result' = [how |-> sync_pc', what |-> sync_args.coro.ends]
               /\ UNCHANGED executor
          ELSE /\ executor' = "finished"
               /\ UNCHANGED <<sync_pc, sync_result>>
    /\ UNCHANGED <<running_loop, sync_args>>

\* future.result() returns or raises; `with executor` shuts down the executor
\* run_sync made itself, sync_utils.py 73-80
FutureResult ==
    /\ sync_pc = "waiting"
    /\ executor = "finished"
    /\ sync_pc' = IF sync_args.coro.ends = "result" THEN "returned" ELSE "raised"
    /\ sync_result' = [how |-> sync_pc', what |-> sync_args.coro.ends]
    /\ executor' = IF sync_args.executor_factory THEN "finished" ELSE "shutdown"
    /\ UNCHANGED <<running_loop, sync_args, coro>>

\* awaits of one coroutine
MaxAwaits == 2

\* the values the model chooses from
Coroutines == {Coroutine(awaits, ends) :
                   awaits \in 0..MaxAwaits, ends \in {"result", "RuntimeError"}}
Sessions == {None, "session"}

InitSync(loops) ==
    /\ running_loop \in loops
    /\ sync_pc = "idle"
    /\ sync_args = NoSyncArgs
    /\ coro = NewCoro(Coroutine(0, "result"))
    /\ executor = "none"
    /\ sync_result = NoSyncResult

(***************************************************************************)
(* The specifications.                                                     *)
(***************************************************************************)
(* client.py: upload_file.                                                 *)
(***************************************************************************)
\* attempts of one call
MaxUploadTries == 2

VARIABLES
    upload_pc,      \* "idle", "trying", "sleeping", "returned", "raised"
    upload_args,    \* the arguments of the call
    attempt,        \* the loop variable of `for attempt in range(num_tries)`
    upload_log,     \* the requests sent and the sleeps taken, in order
    upload_result   \* the Attachment returned or the exception raised

fvars == <<upload_pc, upload_args, attempt, upload_log, upload_result>>

\* file is None, b"" (empty bytes), bytes, or a file object with or without a
\* name attribute; file_url and file_name are None or a string
UploadArgs(file, file_url, file_name, api_key, tries) ==
    [file |-> file, file_url |-> file_url, file_name |-> file_name,
     api_key |-> api_key, num_tries |-> tries]

NoUploadArgs == UploadArgs(None, None, None, "", 0)
NoUploadResult == [how |-> None, what |-> None]

\* truth value of the file argument: None and empty bytes are falsy, a file
\* object is truthy
FileIsTruthy(file) == file \notin {None, "empty_bytes"}

\* the checks in front of the retry loop, client.py 932-953: what they raise,
\* None when they pass
upload_file_raises(args) ==
    IF Falsy(args.api_key) THEN "ValueError: api_key"
    ELSE IF (args.file = None /\ args.file_url = None)
            \/ (FileIsTruthy(args.file) /\ ~Falsy(args.file_url))
        THEN "ValueError: either"
    ELSE IF args.file # None /\ Falsy(args.file_name)
        THEN IF args.file = "named_file" THEN None
             ELSE "ValueError: file_name"
    ELSE None

\* the file_name after the checks: the base name of a named file object
upload_file_name(args) ==
    IF args.file = "named_file" /\ Falsy(args.file_name) THEN "basename"
    ELSE args.file_name

\* upload_file(...) is called, client.py 932-953 and 1003-1004; with
\* num_tries = 0 the loop is empty and line 1013 raises
UploadFile(args) ==
    /\ upload_pc = "idle"
    /\ upload_args' = args
    /\ attempt' = 0
    /\ upload_log' = <<>>
    /\ IF upload_file_raises(args) # None
          THEN /\ upload_pc' = "raised"
               /\ upload_result' = [how |-> "raised", what |-> upload_file_raises(args)]
       ELSE IF args.num_tries = 0
          THEN /\ upload_pc' = "raised"
               /\ upload_result' = [how |-> "raised", what |-> "AssertionError"]
          ELSE /\ upload_pc' = "trying"
               /\ upload_result' = NoUploadResult

\* the except branch of the retry wrapper, client.py 1008-1012
UploadAttemptFails(error) ==
    IF attempt = upload_args.num_tries - 1
       THEN /\ upload_pc' = "raised"
            /\ upload_result' = [how |-> "raised", what |-> error]
       ELSE /\ upload_pc' = "sleeping"
            /\ upload_result' = upload_result

\* one call of _do_upload, client.py 957-1000 and 1006-1007: with a falsy
\* file_url and no file its assert fails before a request is built; else the
\* request is sent and answered with `answer`: "ok" or the error raised
DoUpload(answer) ==
    /\ upload_pc = "trying"
    /\ attempt' = attempt
    /\ upload_args' = upload_args
    /\ IF Falsy(upload_args.file_url) /\ upload_args.file = None
          THEN /\ upload_log' = Append(upload_log,
                    [kind |-> "attempt", sent |-> None, answer |-> "AssertionError"])
               /\ UploadAttemptFails("AssertionError")
       ELSE /\ upload_log' = Append(upload_log,
                 [kind |-> "attempt",
                  sent |-> IF ~Falsy(upload_args.file_url) THEN "url" ELSE "file",
                  answer |-> answer])
            /\ IF answer = "ok"
                  THEN /\ upload_pc' = "returned"
                       /\ upload_result' =
                              [how |-> "returned",
                               what |-> IF Falsy(upload_file_name(upload_args))
                                           THEN "file"
                                           ELSE upload_file_name(upload_args)]
                  ELSE UploadAttemptFails(answer)

\* asyncio.sleep(retry_sleep_time) returns and the loop goes on, client.py 1012
UploadSleepEnds ==
    /\ upload_pc = "sleeping"
    /\ upload_log' = Append(upload_log, [kind |-> "sleep", sent |-> None, answer |-> None])
    /\ attempt' = attempt + 1
    /\ upload_pc' = "trying"
    /\ UNCHANGED <<upload_args, upload_result>>

\* the calls and the answers the model chooses from
UploadFiles == {None, "empty_bytes", "bytes", "named_file", "unnamed_file"}
UploadUrls == {None, "", "u"}
UploadNames == {None, "n"}
UploadKeys == {"", "key"}
UploadAnswers == {"ok", "AttachmentUploadError", "ConnectError"}

InitUpload ==
    /\ upload_pc = "idle"
    /\ upload_args = NoUploadArgs
    /\ attempt = 0
    /\ upload_log = <<>>
    /\ upload_result = NoUploadResult

(***************************************************************************)
uvars == <<kvars, avars, pvars, ivars, yvars, fvars>>

vars == <<svars, cvars, tvars, uvars>>

\* the utilities of base.py at rest
InitUtil == InitCost({"key"}) /\ InitApp({None}) /\ InitPrompt({<<>>})
            /\ InitInsert({<<>>}, {<<>>}) /\ InitSync({FALSE}) /\ InitUpload

\* the dispatcher
Init == InitServer /\ InitClient({2}, {FALSE}) /\ InitTools({NoExecutables})
        /\ InitUtil

\* the calls of post_message_attachment the modelled handlers make, and the
\* access key of the bot they make them on
AttachmentCalls ==
    { AttachmentCall(has_message_id, has_name, has_download_url, access_key, upload) :
        has_message_id \in BOOLEAN, has_name \in BOOLEAN,
        has_download_url \in BOOLEAN, access_key \in {None, "", "key"},
        upload \in {"ok", "AttachmentUploadError"} }

BotAccessKeys == {None, "key"}

ServerNext ==
    \/ \E q \in Queries, m \in MsgIds : StartQuery(q, m)
    \/ \E q \in Queries, is_inline \in BOOLEAN : post_message_attachment(q, is_inline)
    \/ \E q \in Queries, event \in Elements : HandlerYields(q, event)
    \/ \E q \in Queries : GetResponseRaisesInsufficientFund(q)
    \/ \E q \in Queries : HandlerCompletes(q)
    \/ \E q \in Queries, e \in Exceptions : HandlerRaises(q, e)

Next == ServerNext /\ UNCHANGED <<cvars, tvars, uvars>>

Spec == Init /\ [][Next]_vars

\* the dispatcher with the calls of post_message_attachment that raise; a
\* call that raises changes nothing the dispatcher keeps, so Spec leaves it out
AttachmentStep ==
    \/ \E q \in Queries, m \in MsgIds : StartQuery(q, m)
    \/ \E q \in Queries, is_inline \in BOOLEAN : post_message_attachment(q, is_inline)
    \/ \E q \in Queries, key \in BotAccessKeys, call \in AttachmentCalls :
           post_message_attachment_fails(q, key, call)
    \/ \E q \in Queries : HandlerYields(q, PartialResponse("a", FALSE, FALSE))
    \/ \E q \in Queries : HandlerCompletes(q)
    \/ \E q \in Queries, e \in Exceptions : HandlerRaises(q, e)

AttachmentNext == AttachmentStep /\ UNCHANGED <<cvars, tvars, uvars>>

AttachmentSpec == Init /\ [][AttachmentNext]_vars

\* the retry loop of stream_request_base under get_final_response
ClientInit == InitServer /\ InitClient(0..MaxTries, {FALSE}) /\ InitTools({NoExecutables})
              /\ InitUtil

ClientStep ==
    \/ StartRequest
    \/ Retry
    \/ \E event \in RetryEvents : Receive(event, MaxEvents)
    \/ StreamEnds
    \/ \E type \in TransportErrors : TransportFails(type)
    \/ \E type \in TransportErrors : ExitReportFails(type)

ClientNext == ClientStep /\ UNCHANGED <<svars, tvars, uvars>>

ClientSpec == ClientInit /\ [][ClientNext]_vars

\* the same with progress: the event loop runs the generator, the peer's
\* stream delivers its next event, ends or fails, and asyncio.sleep returns
ClientLiveSpec == ClientInit /\ [][ClientNext]_vars /\ WF_vars(ClientNext)

\* one attempt of perform_query_request (num_tries = 1), every event kind
AttemptInit == InitServer /\ InitClient({1}, BOOLEAN) /\ InitTools({NoExecutables})
               /\ InitUtil

AttemptStep ==
    \/ StartRequest
    \/ \E event \in AttemptEvents : Receive(event, MaxEvents)
    \/ StreamEnds
    \/ \E type \in TransportErrors : TransportFails(type)
    \/ \E type \in TransportErrors : ExitReportFails(type)
    \/ \E event \in LateEvents : LateEvent(event)

AttemptNext == AttemptStep /\ UNCHANGED <<svars, tvars, uvars>>

AttemptSpec == AttemptInit /\ [][AttemptNext]_vars

\* handle_query's event stream read by one attempt of perform_query_request
RoundTripElements ==
    Elements \cup { MetaResponse("text/plain", TRUE, FALSE, FALSE) }

\* the next event handle_query has emitted reaches the attempt
Deliver ==
    /\ Len(received) < Len(emitted["q1"])
    /\ Receive(emitted["q1"][Len(received) + 1], MaxEvents)

RoundTripInit == InitServer /\ InitClient({1}, {FALSE}) /\ InitTools({NoExecutables})
                 /\ InitUtil

RoundTripStep ==
    \/ StartRequest /\ UNCHANGED svars
    \/ cpc = "streaming" /\ StartQuery("q1", "m1") /\ UNCHANGED cvars
    \/ \E is_inline \in BOOLEAN :
           post_message_attachment("q1", is_inline) /\ UNCHANGED cvars
    \/ \E event \in RoundTripElements : HandlerYields("q1", event) /\ UNCHANGED cvars
    \/ HandlerCompletes("q1") /\ UNCHANGED cvars
    \/ Deliver /\ UNCHANGED svars

RoundTripNext == RoundTripStep /\ UNCHANGED <<tvars, uvars>>

RoundTripSpec == RoundTripInit /\ [][RoundTripNext]_vars

\* one call of _stream_request_with_tools
ToolsInit == InitServer /\ InitClient({2}, {TRUE}) /\ InitTools(ExecutableLists)
             /\ InitUtil

ToolsStep ==
    \/ \E message \in FirstMessages : FirstStreamMessage(message, MaxMessages)
    \/ FirstStreamEnds
    \/ StreamRaises
    \/ InvokeExecutable
    \/ AfterToolResults
    \/ \E message \in SecondMessages : SecondStreamMessage(message, MaxMessages)
    \/ SecondStreamEnds

ToolsNext == ToolsStep /\ UNCHANGED <<svars, cvars, uvars>>

ToolsSpec == ToolsInit /\ [][ToolsNext]_vars

\* one call of authorize_cost or capture_cost
CostInit == InitServer /\ InitClient({2}, {FALSE}) /\ InitTools({NoExecutables})
            /\ InitCost(AccessKeys) /\ InitApp({None}) /\ InitPrompt({<<>>})
            /\ InitInsert({<<>>}, {<<>>}) /\ InitSync({FALSE}) /\ InitUpload

CostStep ==
    \/ \E op \in CostOps, bot_query_id \in BotQueryIds : CostCall(op, bot_query_id)
    \/ \E status_code \in StatusCodes, events \in SeqsUpTo(CostEvents, MaxCostEvents) :
           CostResponse(status_code, events)
    \/ CostEvent
    \/ CostStreamEnds
    \/ CostHTTPError

CostNext == CostStep /\ UNCHANGED <<svars, cvars, tvars, avars, pvars, ivars, yvars, fvars>>

CostSpec == CostInit /\ [][CostNext]_vars

\* one call of make_app
AppInit == InitServer /\ InitClient({2}, {FALSE}) /\ InitTools({NoExecutables})
           /\ InitCost({"key"}) /\ InitApp(EnvironValues) /\ InitPrompt({<<>>})
           /\ InitInsert({<<>>}, {<<>>}) /\ InitSync({FALSE}) /\ InitUpload

AppStep ==
    \/ \E access_key \in BotKeys, name \in BotNames,
          access_key_arg \in KeyArguments, bot_name \in NameArguments,
          api_key \in KeyArguments, allow_without_key \in BOOLEAN :
           MakeApp(<<PoeBot("/", access_key, name)>>, FALSE, access_key_arg,
                   bot_name, api_key, allow_without_key)
    \/ \E bot \in SeqsUpTo(ListedBots, MaxBots) \ {<<>>},
          access_key_arg \in {"", Key32}, bot_name \in NameArguments,
          allow_without_key \in BOOLEAN :
           MakeApp(bot, TRUE, access_key_arg, bot_name, "", allow_without_key)
    \/ MakeAppBot
    \/ MakeAppReturns

AppNext == AppStep /\ UNCHANGED <<svars, cvars, tvars, kvars, pvars, ivars, yvars, fvars>>

AppSpec == AppInit /\ [][AppNext]_vars

\* make_prompt_author_role_alternated applied to a conversation, and to its
\* own result
PromptInit == InitServer /\ InitClient({2}, {FALSE}) /\ InitTools({NoExecutables})
              /\ InitCost({"key"}) /\ InitApp({None})
              /\ InitPrompt(SeqsUpTo(PromptMessages, MaxPrompt))
              /\ InitInsert({<<>>}, {<<>>}) /\ InitSync({FALSE}) /\ InitUpload

PromptStep ==
    \/ Alternate
    \/ AlternateAgain

PromptNext == PromptStep /\ UNCHANGED <<svars, cvars, tvars, kvars, avars, ivars, yvars, fvars>>

PromptSpec == PromptInit /\ [][PromptNext]_vars

\* insert_attachment_messages applied to a request
InsertInit == InitServer /\ InitClient({2}, {FALSE}) /\ InitTools({NoExecutables})
              /\ InitCost({"key"}) /\ InitApp({None}) /\ InitPrompt({<<>>})
              /\ InitInsert(EarlierMessages, SeqsUpTo(ParsedAttachments, MaxAttachments))
              /\ InitSync({FALSE}) /\ InitUpload

InsertStep == InsertAttachmentMessages

InsertNext == InsertStep /\ UNCHANGED <<svars, cvars, tvars, kvars, avars, pvars, yvars, fvars>>

InsertSpec == InsertInit /\ [][InsertNext]_vars

\* one call of run_sync
SyncInit == InitServer /\ InitClient({2}, {FALSE}) /\ InitTools({NoExecutables})
            /\ InitCost({"key"}) /\ InitApp({None}) /\ InitPrompt({<<>>})
            /\ InitInsert({<<>>}, {<<>>}) /\ InitSync(BOOLEAN) /\ InitUpload

SyncStep ==
    \/ \E coroutine \in Coroutines, session \in Sessions,
          executor_factory \in BOOLEAN :
           RunSync(coroutine, session, executor_factory)
    \/ WorkerRuns
    \/ CoroAwaits
    \/ CoroEnds
    \/ FutureResult

SyncNext == SyncStep /\ UNCHANGED <<svars, cvars, tvars, kvars, avars, pvars, ivars, fvars>>

\* the executor runs what is submitted to it and a running loop runs its
\* coroutine: every thread that can take a step takes it
SyncSpec == SyncInit /\ [][SyncNext]_vars /\ WF_vars(SyncNext)

\* upload_file
UploadInit == InitServer /\ InitClient({2}, {FALSE}) /\ InitTools({NoExecutables})
              /\ InitCost({"key"}) /\ InitApp({None}) /\ InitPrompt({<<>>})
              /\ InitInsert({<<>>}, {<<>>}) /\ InitSync({FALSE}) /\ InitUpload

UploadStep ==
    \/ \E file \in UploadFiles, file_url \in UploadUrls, file_name \in UploadNames,
          api_key \in UploadKeys, tries \in 0..MaxUploadTries :
           UploadFile(UploadArgs(file, file_url, file_name, api_key, tries))
    \/ \E answer \in UploadAnswers : DoUpload(answer)
    \/ UploadSleepEnds

UploadNext == UploadStep /\ UNCHANGED <<svars, cvars, tvars, kvars, avars, pvars, ivars, yvars>>

UploadSpec == UploadInit /\ [][UploadNext]_vars

(***************************************************************************)
(* Properties of the dispatcher.                                           *)
(***************************************************************************)
RECURSIVE CountEvent(_, _)
CountEvent(events, name) ==
    IF events = <<>> THEN 0
    ELSE (IF Head(events).event = name THEN 1 ELSE 0)
         + CountEvent(Tail(events), name)

\* the elements get_response_with_context has handed to handle_query
RECURSIVE YieldedElements(_)
YieldedElements(tr) ==
    IF tr = <<>> THEN <<>>
    ELSE (IF Head(tr).op = "yield" THEN <<Head(tr).elem>> ELSE <<>>)
         \o YieldedElements(Tail(tr))

RECURSIVE CountRawDone(_)
CountRawDone(elems) ==
    IF elems = <<>> THEN 0
    ELSE (IF Head(elems).cls = "ServerSentEvent" /\ Head(elems).sse.event = "done"
             THEN 1 ELSE 0)
         + CountRawDone(Tail(elems))

Uploaded(tr) == \E i \in DOMAIN tr : tr[i].op = "upload"

IsFileEventOf(sse, url) ==
    /\ sse.event = "file"
    /\ sse.data.obj["url"] = JStr(url)

IsUnexpectedIssue(sse) ==
    /\ sse.event = "error"
    /\ "text" \in DOMAIN sse.data.obj
    /\ sse.data.obj["text"] = JStr("The bot encountered an unexpected issue.")

\* C1 as stated: every finished run of handle_query has emitted exactly one
\* done event, and it is the last event.
C1_ExactlyOneDoneAndLast ==
    \A q \in Queries :
        qpc[q] = "finished" =>
            /\ emitted[q] # <<>>
            /\ emitted[q][Len(emitted[q])].event = "done"
            /\ CountEvent(emitted[q], "done") = 1

\* C1 amended: every finished run of handle_query ends with the done event
\* handle_query appends, however the handler ended; the only other done
\* events of the stream are the raw done ServerSentEvents the handler yielded,
\* and while the run goes on handle_query has emitted no done of its own.
C1_DoneLastOncePlusRawDones ==
    \A q \in Queries :
        LET raw == CountRawDone(YieldedElements(trace[q]))
        IN  /\ qpc[q] = "finished" =>
                /\ emitted[q] # <<>>
                /\ emitted[q][Len(emitted[q])] = done_event
                /\ CountEvent(emitted[q], "done") = 1 + raw
            /\ qpc[q] = "running" => CountEvent(emitted[q], "done") = raw

\* a run in which the handler yielded an element and then raised
C1_Witness ==
    \E q \in Queries :
        /\ qpc[q] = "finished"
        /\ ending[q] \in Exceptions
        /\ YieldedElements(trace[q]) # <<>>
        /\ CountRawDone(YieldedElements(trace[q])) = 0

\* C2: a file event of an attachment the handler uploaded for the request's
\* message_id precedes, in the emitted stream, the event of every element the
\* handler yielded after the upload.
C2_FileEventBeforeLaterElements ==
    \A q \in Queries :
        \A i \in DOMAIN trace[q] : \A j \in DOMAIN trace[q] :
            ( /\ i < j
              /\ trace[q][i].op = "upload"
              /\ trace[q][j].op = "yield"
              /\ trace[q][j].at > 0 )
            => \E k \in 1..(trace[q][j].at - 1) :
                   IsFileEventOf(emitted[q][k], trace[q][i].url)

\* an upload followed by two yielded elements
C2_Witness ==
    \E q \in Queries :
        /\ Len(trace[q]) = 3
        /\ trace[q][1].op = "upload"
        /\ trace[q][2].op = "yield" /\ trace[q][2].at > 0
        /\ trace[q][3].op = "yield" /\ trace[q][3].at > 0

\* C3: the step in which the handler raises an exception other than
\* InsufficientFundError leaves the events already emitted as they were and
\* adds exactly an error event with allow_retry false and then done.
C3_ExceptionAddsErrorThenDone ==
    [][ \A q \in Queries :
          ( qpc[q] = "running" /\ qpc'[q] = "finished" /\ ending'[q] \in Exceptions )
          => LET n == Len(emitted[q])
             IN  /\ Len(emitted'[q]) = n + 2
                 /\ SubSeq(emitted'[q], 1, n) = emitted[q]
                 /\ emitted'[q][n + 1].event = "error"
                 /\ emitted'[q][n + 1].data.obj["allow_retry"] = JBool(FALSE)
                 /\ emitted'[q][n + 2] = done_event ]_vars

\* the handler raised after elements were emitted
C3_Witness ==
    \E q \in Queries :
        /\ qpc[q] = "finished"
        /\ ending[q] \in Exceptions
        /\ Len(emitted[q]) >= 4

\* C4: when get_response raises InsufficientFundError the stream ends with an
\* error event of error_type insufficient_fund followed by done, and holds no
\* 'unexpected issue' error event.
C4_InsufficientFundErrorEvent ==
    \A q \in Queries :
        ( qpc[q] = "finished" /\ ending[q] = "InsufficientFundError" )
        => LET n == Len(emitted[q])
           IN  /\ n >= 2
               /\ emitted[q][n] = done_event
               /\ emitted[q][n - 1].event = "error"
               /\ "error_type" \in DOMAIN emitted[q][n - 1].data.obj
               /\ emitted[q][n - 1].data.obj["error_type"] = JStr("insufficient_fund")
               /\ \A k \in 1..n : ~IsUnexpectedIssue(emitted[q][k])

C4_Witness ==
    \E q \in Queries :
        /\ qpc[q] = "finished"
        /\ ending[q] = "InsufficientFundError"
        /\ Len(emitted[q]) >= 3

\* the event the claim names for an element
C5_EventOf(e) ==
    IF e.cls = "ServerSentEvent" THEN e.sse
    ELSE IF e.cls = "ErrorResponse"
        THEN error_event(e.text, e.raw_response, e.allow_retry, e.error_type)
    ELSE IF e.cls = "MetaResponse"
        THEN meta_event(e.content_type, e.refetch_settings, e.linkify,
                        e.suggested_replies)
    ELSE IF e.cls = "DataResponse" THEN data_event(e.metadata)
    ELSE IF e.is_suggested_reply THEN suggested_reply_event(e.text)
    ELSE IF e.is_replace_response THEN replace_response_event(e.text)
    ELSE text_event(e.text)

\* C5 as stated: a run whose handler yielded n elements, uploaded nothing and
\* completed has emitted exactly the n translated elements, in order, and
\* then done.
C5_NElementsThenDone ==
    \A q \in Queries :
        ( qpc[q] = "finished" /\ ending[q] = "completed" /\ ~Uploaded(trace[q]) )
        => LET elems == YieldedElements(trace[q])
               n == Len(elems)
           IN  /\ Len(emitted[q]) = n + 1
               /\ \A i \in 1..n : emitted[q][i] = C5_EventOf(elems[i])
               /\ emitted[q][n + 1] = done_event

(***************************************************************************)
(* Properties of the client engine.                                        *)
(***************************************************************************)
\* the buffers before the k-th event of the attempt was read
PrevChunks(k) == IF k = 1 THEN <<>> ELSE effects[k - 1].chunks
PrevErrorReported(k) == IF k = 1 THEN FALSE ELSE effects[k - 1].error_reported
PrevFinalChunks(k) == IF k = 1 THEN <<>> ELSE effects[k - 1].final_chunks

MetaMessagesYielded == {j \in DOMAIN yielded : yielded[j].cls = "MetaMessage"}

C6_Ignored(k) ==
    /\ effects[k].kind = "continue"
    /\ effects[k].reports = 0
    /\ effects[k].chunks = PrevChunks(k)
    /\ effects[k].error_reported = PrevErrorReported(k)
    /\ effects[k].final_chunks = PrevFinalChunks(k)

C6_MetaMessageOnlyForFirstMeta ==
    /\ \A k \in DOMAIN received :
           effects[k].msg.cls = "MetaMessage" => k = 1 /\ received[1].event = "meta"
    /\ Cardinality(MetaMessagesYielded) <= 1

C7_Kinds == {"text", "replace_response", "suggested_reply", "meta"}

\* the text a stream stands for: that of its last replace_response followed by
\* that of the text events after it
RECURSIVE C7_Text(_)
C7_Text(events) ==
    IF events = <<>> THEN ""
    ELSE LET n == Len(events)
             last == events[n]
         IN  IF last.event = "replace_response" THEN last.data.obj["text"].v
             ELSE IF last.event = "text"
                 THEN C7_Text(SubSeq(events, 1, n - 1)) \o last.data.obj["text"].v
             ELSE C7_Text(SubSeq(events, 1, n - 1))

C7_StreamEndedByDone ==
    /\ received # <<>>
    /\ received[Len(received)].event = "done"
    /\ effects[Len(received)].kind = "return"
    /\ \A k \in 1..(Len(received) - 1) : received[k].event \in C7_Kinds

\* C7: after a stream of text, replace_response, suggested_reply and meta
\* events ended by done, the chunk buffer of perform_query_request and the
\* string get_final_response returns are the text of the last replace_response
\* followed by the text of the later text events; get_final_response raises
\* only when that text has no part; and no suggested_reply or meta event
\* changed either buffer.
C7_AccumulatedText ==
    C7_StreamEndedByDone =>
        LET body == SubSeq(received, 1, Len(received) - 1)
        IN  /\ Join(chunks) = C7_Text(body)
            /\ \A k \in DOMAIN body :
                   body[k].event \in {"suggested_reply", "meta"} =>
                       effects[k].chunks = PrevChunks(k)
            /\ ~tools =>
                   /\ Join(final_chunks) = C7_Text(body)
                   /\ final_result.kind \in {"return", "raise"}
                   /\ final_result.kind = "return" => final_result.text = C7_Text(body)
                   /\ final_result.kind = "raise" => C7_Text(body) = ""
                   /\ \A k \in DOMAIN body :
                          body[k].event \in {"suggested_reply", "meta"} =>
                              effects[k].final_chunks = PrevFinalChunks(k)

\* text, then a replace_response, more text, and done
C7_Witness ==
    /\ C7_StreamEndedByDone
    /\ Len(received) = 4
    /\ received[1].event = "text"
    /\ received[2].event = "replace_response"
    /\ received[3].event = "text"
    /\ ~tools
    /\ final_result.kind = "return"

C8_EndsAttempt(k) ==
    /\ k = Len(received)
    /\ effects[k].kind = "return"
    /\ cpc = "returned"
    /\ raised = NoExc

C9_Retryable == {"BotError", "RemoteProtocolError", "ConnectError"}

C9_Ended == cpc \in {"returned", "raised"}

C9_AllFailedBeforeYielding ==
    /\ outcomes # <<>>
    /\ \A k \in DOMAIN outcomes :
           outcomes[k].how \in C9_Retryable /\ outcomes[k].yields = 0

\* C9: stream_request_base starts at most num_tries attempts and sleeps only
\* between two consecutive attempts; when every attempt failed retryably before
\* anything was yielded it has made exactly num_tries attempts and raised.
C9_AtMostNumTriesAttempts ==
    /\ attempts <= num_tries
    /\ cpc = "sleeping" => sleeps = attempts /\ attempts < num_tries
    /\ ( cpc # "sleeping" /\ attempts >= 1 ) => sleeps = attempts - 1
    /\ attempts = 0 => sleeps = 0
    /\ ( C9_Ended /\ num_tries >= 1 /\ C9_AllFailedBeforeYielding )
       => /\ attempts = num_tries
          /\ cpc = "raised"
          /\ raised.type = "BotError"

\* two tries: an error event allowing a retry, a sleep, a transport failure
C9_Witness ==
    /\ cpc = "raised"
    /\ num_tries = 2 /\ attempts = 2 /\ sleeps = 1
    /\ outcomes[1].how = "BotError" /\ outcomes[1].yields = 0
    /\ outcomes[2].how = "ConnectError" /\ outcomes[2].yields = 0

\* C10: an error event whose allow_retry is false makes the attempt raise
\* BotErrorNoRetry, which stream_request_base raises at once: that attempt is
\* the last; an error event whose allow_retry is true makes the attempt raise
\* the retryable BotError.
C10_NoRetryPropagatesAtOnce ==
    /\ \A k \in DOMAIN received :
           received[k].event = "error" =>
               /\ k = Len(received)
               /\ effects[k].kind = "raise"
               /\ IF received[k].data.obj["allow_retry"] = JBool(FALSE)
                     THEN /\ effects[k].exc.type = "BotErrorNoRetry"
                          /\ outcomes[Len(outcomes)].how = "BotErrorNoRetry"
                     ELSE /\ effects[k].exc.type = "BotError"
                          /\ outcomes[Len(outcomes)].how = "BotError"
    /\ \A k \in DOMAIN outcomes :
           outcomes[k].how = "BotErrorNoRetry" =>
               /\ k = Len(outcomes)
               /\ attempts = k
               /\ cpc = "raised"
               /\ raised = Exc("BotErrorNoRetry", None)

\* allow_retry false arrived in the first of two tries, after a message was yielded
C10_Witness ==
    /\ cpc = "raised"
    /\ raised.type = "BotErrorNoRetry"
    /\ num_tries = 2 /\ attempts = 1
    /\ got_response
    /\ received[Len(received)] = ErrorEventAllowRetry(FALSE)

\* the messages yielded up to the end of attempt k
RECURSIVE C11_YieldedBy(_)
C11_YieldedBy(k) ==
    IF k = 0 THEN 0 ELSE outcomes[k].yields + C11_YieldedBy(k - 1)

C11_Failures == {"BotError", "BotErrorNoRetry", "RemoteProtocolError", "ConnectError"}

\* C11: an attempt that fails otherwise than by RemoteProtocolError once a
\* message has been yielded is the last attempt and its failure is raised;
\* an attempt that fails by RemoteProtocolError is followed by another attempt
\* when fewer than num_tries attempts have been made.
C11_OnlyRemoteProtocolErrorRetriesAfterYield ==
    \A k \in DOMAIN outcomes :
        /\ ( /\ C11_YieldedBy(k) > 0
             /\ outcomes[k].how \in C11_Failures \ {"RemoteProtocolError"} )
           => /\ k = Len(outcomes)
              /\ attempts = k
              /\ cpc = "raised"
        /\ ( outcomes[k].how = "RemoteProtocolError" /\ k < num_tries )
           => \/ attempts > k
              \/ cpc = "sleeping" /\ attempts = k /\ k = Len(outcomes)

\* the first of two tries yielded a message and then got an error event that
\* allows a retry
C11_Witness ==
    /\ num_tries = 2
    /\ Len(outcomes) = 1
    /\ outcomes[1].how = "BotError" /\ outcomes[1].yields > 0
    /\ received[Len(received)] = ErrorEventAllowRetry(TRUE)
    /\ cpc = "raised"

\* C12: when stream_request_base gives up on a failure other than
\* BotErrorNoRetry it raises a BotError: the attempt's own exception when that
\* is a BotError, else a new BotError naming bot_name with that exception as
\* its cause.
C12_GivesUpWithBotError ==
    ( cpc = "raised" /\ outcomes[Len(outcomes)].how # "BotErrorNoRetry" )
    => LET how == outcomes[Len(outcomes)].how
       IN  /\ raised.type = "BotError"
           /\ how = "BotError" => raised = Exc("BotError", None)
           /\ how # "BotError" =>
                  raised = [type |-> "BotError", cause |-> how,
                            msg |-> "Error communicating with bot " \o BotName]

\* both tries were cut by a transport failure
C12_Witness ==
    /\ cpc = "raised"
    /\ num_tries = 2 /\ attempts = 2
    /\ outcomes[2].how = "ConnectError"
    /\ raised.cause = "ConnectError"

\* the event names of the protocol
C13_KnownEvents ==
    {"done", "text", "replace_response", "file", "suggested_reply", "json",
     "data", "meta", "error", "ping"}

\* C13: an event of an unknown name is reported once and the attempt goes on
\* with the next event, whatever the event's data.
C13_UnknownEventReportedNeverFatal ==
    \A k \in DOMAIN received :
        received[k].event \notin C13_KnownEvents =>
            /\ effects[k].kind = "continue"
            /\ effects[k].reports = 1

\* C14: a ping event is ignored whatever its data: nothing is yielded,
\* reported or raised, the buffers stay as they were and the attempt goes on.
C14_PingIgnored ==
    \A k \in DOMAIN received :
        received[k].event = "ping" =>
            /\ effects[k].kind = "continue"
            /\ effects[k].reports = 0
            /\ effects[k].chunks = PrevChunks(k)
            /\ effects[k].error_reported = PrevErrorReported(k)

\* data that is not valid JSON, JSON that is not an object, or a text field
\* that is not a string
C15_Malformed(event) ==
    \/ event.data.kind \in {"invalid", "nondict"}
    \/ /\ event.event \in {"text", "replace_response", "suggested_reply"}
       /\ "text" \in DOMAIN event.data.obj
       /\ event.data.obj["text"].t # "str"

\* C15: an event with malformed data is reported, ends its attempt with
\* BotErrorNoRetry, and stream_request_base raises that at once: no sleep and
\* no further attempt.
C15_MalformedDataNeverRetried ==
    \A k \in DOMAIN received :
        C15_Malformed(received[k]) =>
            /\ k = Len(received)
            /\ effects[k].kind = "raise"
            /\ effects[k].reports = 1
            /\ effects[k].exc.type = "BotErrorNoRetry"
            /\ cpc = "raised"
            /\ raised.type = "BotErrorNoRetry"

\* C16: a data event yields a message that carries the event's data and
\* nothing else, and is not reported.
C16_DataEventYieldsData ==
    \A k \in DOMAIN received :
        ( received[k].event = "data" /\ received[k].data.kind = "object" ) =>
            /\ effects[k].kind = "yield"
            /\ effects[k].reports = 0
            /\ effects[k].msg.cls = "BotMessage"
            /\ effects[k].msg.data = received[k].data
            /\ effects[k].msg.text = ""
            /\ effects[k].msg.attachment = NoAttachment

\* the response variants of the claim: a PartialResponse with at most one of
\* its flags set, a MetaResponse, a DataResponse
C17_Variant(elem) ==
    \/ elem.cls \in {"MetaResponse", "DataResponse"}
    \/ /\ elem.cls = "PartialResponse"
       /\ ~(elem.is_suggested_reply /\ elem.is_replace_response)

C17_Equivalent(elem, msg) ==
    IF elem.cls = "MetaResponse"
        THEN /\ msg.cls = "MetaMessage"
             /\ msg.content_type = elem.content_type
             /\ msg.suggested_replies = elem.suggested_replies
             /\ msg.linkify = elem.linkify
             /\ msg.refetch_settings = elem.refetch_settings
    ELSE IF elem.cls = "DataResponse"
        THEN /\ msg.cls = "BotMessage"
             /\ msg.data.kind = "object"
             /\ msg.data.obj = ("metadata" :> JStr(elem.metadata))
    ELSE /\ msg.cls = "BotMessage"
         /\ msg.text = elem.text
         /\ msg.is_suggested_reply = elem.is_suggested_reply
         /\ msg.is_replace_response = elem.is_replace_response
         /\ msg.data = NoData

\* C17: the event handle_query emits for a response variant is decoded by
\* perform_query_request into an equivalent message (a MetaResponse being the
\* first event of the stream).
C17_EncodeDecodeRoundTrip ==
    \A i \in DOMAIN trace["q1"] :
        LET t == trace["q1"][i]
        IN  ( /\ t.op = "yield"
              /\ t.at > 0
              /\ t.at <= Len(received)
              /\ C17_Variant(t.elem)
              /\ t.elem.cls = "MetaResponse" => t.at = 1 )
            => /\ effects[t.at].kind = "yield"
               /\ C17_Equivalent(t.elem, effects[t.at].msg)

(***************************************************************************)
(* Properties of the tool-call orchestrator.                               *)
(***************************************************************************)
\* the deltas of the chunks of a stream whose finish_reason is null, in order
RECURSIVE C18_Deltas(_)
C18_Deltas(stream) ==
    IF stream = <<>> THEN <<>>
    ELSE LET m == Head(stream)
         IN  (IF m.kind = "chunk" /\ m.finish_reason = None /\ m.has_tool_calls
                 THEN m.tool_calls ELSE <<>>)
             \o C18_Deltas(Tail(stream))

C18_DeltasAt(index) ==
    LET AtIndex(delta) == delta.index = index
    IN  SelectSeq(C18_Deltas(first_stream), AtIndex)

C18_Seeds(delta) ==
    delta.id # None /\ delta.type # None /\ delta.function.name # None

C18_Indexes == {0, 1}

\* C18: with tool_executables given, an index whose first delta carries id,
\* type and function.name has exactly one aggregated tool call, with that id,
\* type and name, whose arguments are the arguments of all the deltas of that
\* index, concatenated in arrival order (deltas of chunks with a finish_reason
\* aside).
C18_ArgumentsConcatenated ==
    ~tool_executables.is_none =>
        \A index \in C18_Indexes :
            LET deltas == C18_DeltasAt(index)
            IN  ( deltas # <<>> /\ C18_Seeds(deltas[1]) ) =>
                    /\ Cardinality(IndexOf(aggregated_tool_calls, index)) = 1
                    /\ \A k \in IndexOf(aggregated_tool_calls, index) :
                           LET call == aggregated_tool_calls[k]
                           IN  /\ call.id = deltas[1].id
                               /\ call.type = deltas[1].type
                               /\ call.function.name = deltas[1].function.name
                               /\ call.function.arguments =
                                      Join([j \in DOMAIN deltas |->
                                               deltas[j].function.arguments])

\* three deltas of one index, the first carrying id, type and name, have been
\* aggregated to the arguments {}
C18_Witness ==
    /\ ~tool_executables.is_none
    /\ \E index \in C18_Indexes :
           /\ Len(C18_DeltasAt(index)) = 3
           /\ C18_Seeds(C18_DeltasAt(index)[1])
           /\ \E k \in IndexOf(aggregated_tool_calls, index) :
                  aggregated_tool_calls[k].function.arguments = "{}"

\* a non-empty list of executables was passed
C19_Supplied == ~tool_executables.is_none /\ tool_executables.names # <<>>

\* C19: with tool_executables given, an index whose first delta lacks id, type
\* or function.name has no aggregated tool call, and none in the second
\* request, whatever deltas came later.
C19_UnseededIndexAbsent ==
    C19_Supplied =>
        \A index \in C18_Indexes :
            LET deltas == C18_DeltasAt(index)
            IN  ( deltas # <<>> /\ ~C18_Seeds(deltas[1]) ) =>
                    /\ IndexOf(aggregated_tool_calls, index) = {}
                    /\ \A r \in DOMAIN second_requests :
                           IndexOf(second_requests[r].tool_calls, index) = {}

C20_FirstStreamCompleted ==
    \/ tpc \in {"executing", "second", "done"}
    \/ tpc = "raised" /\ traised # "BotError"

C20_RequestWellFormed(request) ==
    LET tool_calls == request.tool_calls
        results == request.tool_results
    IN  /\ tool_calls = aggregated_tool_calls
        /\ Len(results) = Len(tool_calls)
        /\ \A i \in DOMAIN results :
               /\ results[i].role = "tool"
               /\ results[i].tool_call_id = tool_calls[i].id
               /\ results[i].name = tool_calls[i].function.name

\* executables run only after the first stream, one per aggregated tool call
\* in aggregation order; a second request carries matching tool_calls and
\* tool_results; the second stream is forwarded whole and runs no executable
C20_OrderAndShape ==
    /\ tpc = "first" => invoked = <<>> /\ second_requests = <<>>
    /\ Len(invoked) <= Len(aggregated_tool_calls)
    /\ \A k \in DOMAIN invoked : invoked[k] = aggregated_tool_calls[k].id
    /\ Len(second_requests) <= 1
    /\ \A r \in DOMAIN second_requests :
           /\ C20_RequestWellFormed(second_requests[r])
           /\ Len(invoked) = Len(aggregated_tool_calls)
    /\ second_requests = <<>> => second_stream = <<>>
    /\ Len(second_stream) <= Len(forwarded)
    /\ SubSeq(forwarded, Len(forwarded) - Len(second_stream) + 1, Len(forwarded))
           = second_stream

C20_ExecutionOver ==
    C19_Supplied /\ aggregated_tool_calls # <<>> /\ C20_FirstStreamCompleted
    /\ tpc # "executing"

C20_Executable(tool_call) ==
    /\ tool_call.function.name \in Names(tool_executables)
    /\ ~JsonLoadsRaises(tool_call.function.arguments)

C21_Passes(message) ==
    \/ message.kind = "plain"
    \/ /\ message.finish_reason = None
       /\ (message.has_tool_calls \/ message.content # None)

C21_ToCaller(message) ==
    IF message.kind = "plain" THEN message
    ELSE IF message.has_tool_calls
        THEN ToolCallsMessage(message.tool_calls, message.index)
    ELSE ContentMessage(message.content, message.index)

C21_NoToolCallDelta ==
    \A k \in DOMAIN first_stream :
        first_stream[k].kind = "chunk" => ~first_stream[k].has_tool_calls

\* C21: if no message of the first stream carries delta.tool_calls, then with
\* or without tool_executables no executable is invoked, no second request is
\* issued (the call makes one request, and raises only if that request does),
\* and the caller has received, in arrival order, every plain message unchanged
\* and one text message per delta.content of a chunk with a null finish_reason.
C21_NoToolCallsOneRequest ==
    C21_NoToolCallDelta =>
        /\ invoked = <<>>
        /\ tool_results = <<>>
        /\ second_requests = <<>>
        /\ tpc # "second"
        /\ traised \in {None, "BotError"}
        /\ LET passed == SelectSeq(first_stream, C21_Passes)
           IN  forwarded = [k \in DOMAIN passed |-> C21_ToCaller(passed[k])]

C21_Witness ==
    /\ ~tool_executables.is_none
    /\ tool_executables.names # <<>>
    /\ tpc = "done"
    /\ C21_NoToolCallDelta
    /\ Len(first_stream) = 3
    /\ first_stream[1] = Chunk(None, FALSE, <<>>, "hi")
    /\ first_stream[2] = TextMessage("t", "1")
    /\ first_stream[3] = Chunk("stop", FALSE, <<>>, "bye")
    /\ forwarded = <<ContentMessage("hi", None), TextMessage("t", "1")>>

RECURSIVE C22_Flatten(_)
C22_Flatten(messages) ==
    IF messages = <<>> THEN <<>>
    ELSE Head(messages).tool_calls \o C22_Flatten(Tail(messages))

RECURSIVE C22_Arguments(_, _)
C22_Arguments(deltas, index) ==
    IF deltas = <<>> THEN ""
    ELSE (IF Head(deltas).index = index THEN Head(deltas).function.arguments
          ELSE "") \o C22_Arguments(Tail(deltas), index)

C22_ToolChunk(message) ==
    /\ message.kind = "chunk"
    /\ message.finish_reason = None
    /\ message.has_tool_calls

C22_ToolCalls(message) == message.kind = "tool_calls"

\* C22: with tool_executables None, the messages with tool_calls the caller has
\* received are, one for one and in order, the chunks of the first stream with
\* delta.tool_calls and a null finish_reason: the same deltas in the same order
\* under the index of the incoming message; so for every tool-call index the
\* caller's concatenation of the arguments is that of the received chunks.
C22_DeltasYieldedWithIndex ==
    tool_executables.is_none =>
        LET chunks_in == SelectSeq(first_stream, C22_ToolChunk)
            calls_out == SelectSeq(forwarded, C22_ToolCalls)
        IN  /\ Len(calls_out) = Len(chunks_in)
            /\ \A k \in DOMAIN chunks_in :
                  /\ calls_out[k].tool_calls = chunks_in[k].tool_calls
                  /\ calls_out[k].index = chunks_in[k].index
                  /\ calls_out[k].text = ""
            /\ \A index \in {0, 1} :
                  C22_Arguments(C22_Flatten(calls_out), index)
                      = C22_Arguments(C22_Flatten(chunks_in), index)
            /\ aggregated_tool_calls = <<>>
            /\ second_requests = <<>>

C22_Witness ==
    /\ tool_executables.is_none
    /\ tpc = "done"
    /\ Len(first_stream) = 3
    /\ first_stream[1] = Chunk(None, TRUE,
                               <<ToolCallDefinitionDelta(0, "c1", "function", "f", "{"),
                                 ToolCallDefinitionDelta(1, "c2", "function", "g", "{}")>>,
                               None)
    /\ first_stream[2] = WithIndex(Chunk(None, TRUE,
                               <<ToolCallDefinitionDelta(0, None, None, None, "}")>>,
                               None), "1")
    /\ first_stream[3].kind = "chunk"
    /\ first_stream[3].finish_reason = "tool_calls"
    /\ Len(forwarded) = 2
    /\ forwarded[2].index = "1"
    /\ C22_Arguments(C22_Flatten(forwarded), 0) = "{}"
(***************************************************************************)
(* Properties of the cost channel.                                         *)
(***************************************************************************)

\* the call got a response and read it without a transport failure
C23_Answered ==
    /\ cost_pc \in {"returned", "raised"}
    /\ event_source.status_code # 0
    /\ cost_raised.type # "HTTPError"

C23_IsSuccess(event) ==
    /\ event.data.kind = "object"
    /\ "status" \in DOMAIN event.data.obj
    /\ event.data.obj["status"] = JStr("success")

C23_FirstResultSucceeds ==
    \E k \in DOMAIN event_source.events :
        /\ event_source.events[k].event = "result"
        /\ C23_IsSuccess(event_source.events[k])
        /\ \A j \in 1..(k - 1) : event_source.events[j].event # "result"

\* C23: a cost call that got its response raises CostRequestError exactly when
\* the status is not 200, whatever events the response carries; with status
\* 200 it returns normally exactly when the first `result` event has status
\* "success", and raises InsufficientFundError otherwise.
C23_StatusDecidesOutcome ==
    C23_Answered =>
        /\ (cost_raised.type = "CostRequestError") <=> (event_source.status_code # 200)
        /\ event_source.status_code = 200 =>
              IF C23_FirstResultSucceeds
                  THEN cost_pc = "returned"
                  ELSE cost_pc = "raised" /\ cost_raised.type = "InsufficientFundError"

\* the events the code parses are JSON objects, with a string `message` in a
\* response that is not 200 and a `status` in the first result of a 200 one
C23_WellFormed ==
    \A k \in 1..event_source.read :
        LET event == event_source.events[k]
        IN  IF event_source.status_code # 200
               THEN /\ event.data.kind = "object"
                    /\ Get(event.data.obj, "message", JStr("")).t = "str"
               ELSE event.event = "result" =>
                        /\ event.data.kind = "object"
                        /\ "status" \in DOMAIN event.data.obj

\* with well-formed events the outcome is the one C23 states
C23_WellFormedStatusDecidesOutcome ==
    (C23_Answered /\ C23_WellFormed) =>
        /\ (cost_raised.type = "CostRequestError") <=> (event_source.status_code # 200)
        /\ event_source.status_code = 200 =>
              IF C23_FirstResultSucceeds
                  THEN cost_pc = "returned"
                  ELSE cost_pc = "raised" /\ cost_raised.type = "InsufficientFundError"

C24_CalledWithoutQueryId ==
    /\ cost_pc # "idle"
    /\ Falsy(cost_call.bot_query_id)

\* C24: a cost call whose request has no bot_query_id raises
\* InvalidParameterError and sends no HTTP request, with or without an access
\* key on the bot.
C24_NoQueryIdInvalidParameter ==
    C24_CalledWithoutQueryId =>
        /\ cost_pc = "raised"
        /\ cost_raised.type = "InvalidParameterError"
        /\ cost_posts = <<>>

\* C24 (amended): a cost call whose request has no bot_query_id sends no HTTP
\* request and raises: InvalidParameterError on a bot with an access key,
\* CostRequestError on a bot without one.
C24_NoQueryIdRaisesBeforePost ==
    C24_CalledWithoutQueryId =>
        /\ cost_pc = "raised"
        /\ cost_posts = <<>>
        /\ cost_raised.type = IF Falsy(self_access_key)
                                  THEN "CostRequestError"
                                  ELSE "InvalidParameterError"

C24_Witness ==
    /\ C24_CalledWithoutQueryId
    /\ cost_call.op = "capture"
    /\ self_access_key = "key"
    /\ cost_raised.type = "InvalidParameterError"
    /\ cost_posts = <<>>
(***************************************************************************)
(* Properties of make_app.                                                 *)
(***************************************************************************)

\* C25: make_app does not return (it fails fast) whenever a bot ends up with an
\* access key that is not exactly 32 characters long, wherever the key came
\* from: every bot of an app that make_app returned has no key or one of 32
\* characters.
C25_BootedKeysHave32Characters ==
    app_pc = "returned" =>
        \A k \in DOMAIN bots :
            bots[k].access_key # None => Len(bots[k].access_key) = 32

\* the first non-empty one of the access_key argument, POE_ACCESS_KEY, the
\* api_key argument and POE_API_KEY
C25_Found ==
    IF app_args.access_key # "" THEN app_args.access_key
    ELSE IF environ.POE_ACCESS_KEY \notin {None, ""} THEN environ.POE_ACCESS_KEY
    ELSE IF app_args.api_key # "" THEN app_args.api_key
    ELSE IF environ.POE_API_KEY \notin {None, ""} THEN environ.POE_API_KEY
    ELSE None

\* C25 (amended): for a single PoeBot that has no access key of its own, the
\* key is the first non-empty one of the access_key argument, POE_ACCESS_KEY,
\* the api_key argument and POE_API_KEY; make_app exits at once exactly when
\* that key is not 32 characters long, or when there is none and
\* allow_without_key is not set; otherwise the bot ends up with that key.
C25_FoundKeyHas32Characters ==
    (app_pc # "idle" /\ ~app_args.is_list /\ app_args.bot[1].access_key = None) =>
        /\ (app_pc = "exited") <=>
              (IF C25_Found = None THEN ~app_args.allow_without_key
               ELSE Len(C25_Found) # 32)
        /\ app_pc # "exited" =>
              /\ bots[1].access_key = C25_Found
              /\ C25_Found # None => Len(C25_Found) = 32
        /\ app_pc = "exited" => routes = <<>>

C25_Witness ==
    /\ app_pc = "exited"
    /\ ~app_args.is_list
    /\ app_args.bot[1].access_key = None
    /\ Falsy(app_args.access_key)
    /\ environ.POE_ACCESS_KEY = None
    /\ app_args.api_key = "short"
    /\ app_args.allow_without_key
(***************************************************************************)
(* Properties of make_prompt_author_role_alternated.                       *)
(***************************************************************************)
C26_Urls(messages) ==
    UNION { {messages[k].attachments[i].url : i \in DOMAIN messages[k].attachments} :
            k \in DOMAIN messages }

\* C26: applied to its own output the function returns an equal sequence, and
\* the attachment URLs of its output are exactly those of its input.
C26_IdempotentSameUrls ==
    /\ alternated = 2 => new_messages = protocol_messages
    /\ alternated >= 1 => C26_Urls(new_messages) = C26_Urls(protocol_messages)

C26_Witness ==
    /\ alternated = 2
    /\ Len(new_messages) = 2
    /\ new_messages[1].content = "c\n\nd"
    /\ new_messages[1].attachments =
           <<Attachment("u3", "text/plain", "n6", "p"),
             Attachment("u1", "text/plain", "n2", "p"),
             Attachment("u2", "text/plain", "n3", "p")>>
    /\ new_messages[2].role = "bot"
\* the indexes at which a run of consecutive same-role messages starts
C27_Starts(messages) ==
    {k \in DOMAIN messages : k = 1 \/ messages[k].role # messages[k - 1].role}

\* the first and the last index of the j-th run
C27_First(messages, j) ==
    CHOOSE k \in C27_Starts(messages) :
        Cardinality({i \in C27_Starts(messages) : i <= k}) = j

C27_Last(messages, j) ==
    IF j = Cardinality(C27_Starts(messages)) THEN Len(messages)
    ELSE C27_First(messages, j + 1) - 1

RECURSIVE C27_Joined(_, _, _)
C27_Joined(messages, from, to) ==
    IF from = to THEN messages[from].content
    ELSE C27_Joined(messages, from, to - 1) \o "\n\n" \o messages[to].content

\* the attachments of messages from..to that have this url, in the order of the
\* conversation
RECURSIVE C27_WithUrl(_, _, _, _)
C27_WithUrl(messages, from, to, url) ==
    IF from > to THEN <<>>
    ELSE SelectSeq(messages[from].attachments, LAMBDA a : a.url = url)
             \o C27_WithUrl(messages, from + 1, to, url)

C27_Merged(j) ==
    /\ alternated = 1
    /\ j \in 1..Cardinality(C27_Starts(protocol_messages))
    /\ C27_First(protocol_messages, j) < C27_Last(protocol_messages, j)

\* C27: a run of two or more consecutive same-role messages becomes one message
\* whose content is the run's contents in order joined by "\n\n", and of the
\* attachments of the run that share a url the one that comes first in the
\* conversation is the one kept.
C27_JoinedEarliestAttachmentKept ==
    \A j \in 1..MaxPrompt + 1 : C27_Merged(j) =>
        LET from == C27_First(protocol_messages, j)
            to == C27_Last(protocol_messages, j)
        IN  /\ new_messages[j].content = C27_Joined(protocol_messages, from, to)
            /\ \A url \in C26_Urls(SubSeq(protocol_messages, from, to)) :
                  SelectSeq(new_messages[j].attachments, LAMBDA a : a.url = url)
                      = <<Head(C27_WithUrl(protocol_messages, from, to, url))>>

\* the last message of from..to that has an attachment with this url
C27_LastWithUrl(messages, from, to, url) ==
    CHOOSE k \in from..to :
        /\ C27_WithUrl(messages, k, k, url) # <<>>
        /\ \A i \in (k + 1)..to : C27_WithUrl(messages, i, i, url) = <<>>

\* C27 (amended): a run of two or more consecutive same-role messages becomes
\* one message whose content is the run's contents in order joined by "\n\n";
\* of the attachments of the run that share a url exactly one is kept: the first
\* one of the last message of the run that has that url.
C27_JoinedLatestMessageAttachmentKept ==
    \A j \in 1..MaxPrompt + 1 : C27_Merged(j) =>
        LET from == C27_First(protocol_messages, j)
            to == C27_Last(protocol_messages, j)
        IN  /\ new_messages[j].content = C27_Joined(protocol_messages, from, to)
            /\ new_messages[j].role = protocol_messages[from].role
            /\ \A url \in C26_Urls(SubSeq(protocol_messages, from, to)) :
                  LET k == C27_LastWithUrl(protocol_messages, from, to, url)
                  IN  SelectSeq(new_messages[j].attachments, LAMBDA a : a.url = url)
                        = <<Head(C27_WithUrl(protocol_messages, k, k, url))>>

C27_Witness ==
    /\ alternated = 1
    /\ protocol_messages =
          <<ProtocolMessage("bot", "b", <<>>),
            ProtocolMessage("user", "c",
                            <<Attachment("u3", "text/plain", "n4", "p"),
                              Attachment("u3", "text/plain", "n5", "p")>>),
            ProtocolMessage("user", "d",
                            <<Attachment("u3", "text/plain", "n6", "p")>>)>>
    /\ new_messages =
          <<ProtocolMessage("bot", "b", <<>>),
            ProtocolMessage("user", "c\n\nd",
                            <<Attachment("u3", "text/plain", "n6", "p")>>)>>
(***************************************************************************)
(* Properties of insert_attachment_messages.                               *)
(***************************************************************************)
C28_Parsed(attachment) == attachment.parsed_content \notin {None, ""}

C28_IsText(attachment) ==
    /\ C28_Parsed(attachment)
    /\ attachment.content_type \in {"text/html", "text/plain", "text/csv",
                                     "application/pdf"}

C28_IsImage(attachment) ==
    /\ C28_Parsed(attachment)
    /\ attachment.content_type \in {"image/png", "image/jpeg"}

\* the synthesized message of an attachment: a user message without
\* attachments, built from the attachment's name and parsed content
C28_MessageOf(message, attachment) ==
    /\ message.role = "user"
    /\ message.attachments = <<>>
    /\ message = attachment_message(attachment)

\* C28: the returned query is every message before the last one unchanged, then
\* one synthesized user message per text/html, text/* or application/pdf
\* attachment of the last message with non-empty parsed_content in attachment
\* order, then one per image attachment with non-empty parsed_content in
\* attachment order, then the original last message; other attachments add
\* nothing, and the request given is as it was.
C28_TextThenImageThenLast ==
    inserted =>
        LET query == query_request.query
            last_message == query[Len(query)]
            texts == SelectSeq(last_message.attachments, C28_IsText)
            images == SelectSeq(last_message.attachments, C28_IsImage)
            result == modified_query.query
            n == Len(query) - 1
        IN  /\ Len(result) = n + Len(texts) + Len(images) + 1
            /\ SubSeq(result, 1, n) = SubSeq(query, 1, n)
            /\ \A k \in DOMAIN texts : C28_MessageOf(result[n + k], texts[k])
            /\ \A k \in DOMAIN images :
                  C28_MessageOf(result[n + Len(texts) + k], images[k])
            /\ result[Len(result)] = last_message
            /\ modified_query.message_id = query_request.message_id

C28_Witness ==
    /\ inserted
    /\ Len(query_request.query) = 3
    /\ query_request.query[3].attachments =
          <<Attachment("u4", "image/png", "a.png", "f.png***a cat"),
            Attachment("u6", "video/mp4", "a.mp4", "a film"),
            Attachment("u1", "text/html", "page", "html text")>>
    /\ Len(modified_query.query) = 5
    /\ modified_query.query[3].content =
          URL_ATTACHMENT_TEMPLATE("page", "html text")
    /\ modified_query.query[4].content =
          IMAGE_VISION_ATTACHMENT_TEMPLATE("f.png", "a cat")
(***************************************************************************)
(* Properties of run_sync.                                                 *)
(***************************************************************************)
C29_Called == sync_pc # "idle"

C29_Rejected == running_loop /\ sync_args.session # None

C29_Safe ==
    C29_Called =>
        IF C29_Rejected
            THEN /\ sync_pc = "raised"
                 /\ sync_result = [how |-> "raised", what |-> "ValueError"]
                 /\ coro.started = 0
                 /\ executor = "none"
            ELSE /\ coro.started <= 1
                 /\ coro.started = 1 =>
                       coro.thread = IF running_loop THEN "worker" ELSE "caller"
                 /\ sync_pc \in {"returned", "raised"} =>
                       /\ coro.started = 1
                       /\ coro.state = "done"
                       /\ coro.awaits = 0
                       /\ sync_result.what = sync_args.coro.ends
                       /\ sync_result.how =
                             IF sync_args.coro.ends = "result"
                                 THEN "returned" ELSE "raised"

\* C29: called inside a running loop with a session, run_sync raises ValueError
\* and the coroutine is never started; in every other case the coroutine is
\* started once (in the caller's thread when no loop runs there, else in the
\* worker's), has run to its end when run_sync ends, and run_sync returns its
\* result or raises its exception; and every call ends.
C29_RunsOnceAndEnds ==
    /\ []C29_Safe
    /\ C29_Called ~> (sync_pc \in {"returned", "raised"})

C29_Witness ==
    /\ running_loop
    /\ sync_args.session = None
    /\ sync_args.coro = Coroutine(2, "RuntimeError")
    /\ ~sync_args.executor_factory
    /\ sync_pc = "raised"
    /\ sync_result = [how |-> "raised", what |-> "RuntimeError"]
    /\ coro.thread = "worker"
    /\ executor = "shutdown"

(***************************************************************************)
(* C30: a stream that ends without done.                                   *)
(***************************************************************************)
C30_Report == "Bot exited without sending 'done' event"

\* the messages of the events of this attempt that carry one
RECURSIVE C30_Messages(_)
C30_Messages(effs) ==
    IF effs = <<>> THEN <<>>
    ELSE (IF Head(effs).kind = "yield" THEN <<Head(effs).msg>> ELSE <<>>)
         \o C30_Messages(Tail(effs))

\* the last attempt ran out of events and its report was answered
C30_Exhausted ==
    outcomes # <<>> /\ outcomes[Len(outcomes)].how = "exhausted"

\* every event of the attempt was read, none ended it, and the messages they
\* carry are the last ones handed to the caller, in order
C30_EveryMessageYielded ==
    /\ Len(effects) = Len(received)
    /\ \A i \in DOMAIN effects : effects[i].kind \in {"yield", "continue"}
    /\ LET messages == C30_Messages(effects)
       IN  /\ Len(messages) <= Len(yielded)
           /\ SubSeq(yielded, Len(yielded) - Len(messages) + 1, Len(yielded))
                  = messages

C30_EndedNormally ==
    C30_Exhausted =>
        /\ cpc = "returned"
        /\ raised = NoExc
        /\ attempts = Len(outcomes)
        /\ reports # <<>> /\ reports[Len(reports)] = C30_Report
        /\ C30_EveryMessageYielded

C31_FailsBeforeYieldingAfterRetriedYield(k) ==
    /\ k >= 2 /\ k <= Len(outcomes)
    /\ outcomes[k - 1].yields > 0
    /\ outcomes[k - 1].how = "RemoteProtocolError"
    /\ outcomes[k].yields = 0
    /\ outcomes[k].how \in C9_Retryable
    /\ k < num_tries

\* C31: the 'a response was already yielded' condition is per attempt: an
\* attempt that fails retryably before yielding anything itself, after an
\* attempt that yielded messages and was retried on a transport failure, is
\* followed by a further attempt (or the sleep before it) when fewer than
\* num_tries attempts have been made.
C31_GotResponseIsPerAttempt ==
    \A k \in DOMAIN outcomes :
        C31_FailsBeforeYieldingAfterRetriedYield(k)
        => \/ attempts > k
           \/ cpc = "sleeping" /\ attempts = k /\ k = Len(outcomes)

(***************************************************************************)
(* C32: the pending file events once done has been emitted.                *)
(***************************************************************************)
C32_UploadedUrls(tr) == { tr[i].url : i \in {j \in DOMAIN tr : tr[j].op = "upload"} }

\* no request in progress has this message_id
C32_NoneRunning(m) ==
    \A p \in Queries : qpc[p] = "running" => message_id[p] # m

\* C32: once handle_query has emitted done for a request, whether the handler
\* completed or raised, no file event is pending for the request's message_id
\* (while no other request with that identifier is in progress), and every
\* file event a query emits is one of an upload made during that query.
C32_NoPendingFileEventAfterDone ==
    /\ \A q \in Queries :
           ( qpc[q] = "finished" /\ C32_NoneRunning(message_id[q]) )
           => file_events_to_yield[message_id[q]] = <<>>
    /\ \A q \in Queries : \A k \in DOMAIN emitted[q] :
           emitted[q][k].event = "file"
           => \E url \in C32_UploadedUrls(trace[q]) :
                  IsFileEventOf(emitted[q][k], url)

(***************************************************************************)
(* C33: the file events of a query whose handler completes.                *)
(***************************************************************************)
\* the file events of the uploads of a query, in the order they completed
RECURSIVE C33_FileEventsOf(_)
C33_FileEventsOf(tr) ==
    IF tr = <<>> THEN <<>>
    ELSE (IF Head(tr).op = "upload"
             THEN <<file_event(Head(tr).url, "image/png", "name", Head(tr).inline_ref)>>
             ELSE <<>>)
         \o C33_FileEventsOf(Tail(tr))

\* the emitted events that are file events of the query's own uploads
C33_OwnFileEventsEmitted(q) ==
    SelectSeq(emitted[q],
              LAMBDA sse : /\ sse.event = "file"
                           /\ \E url \in C32_UploadedUrls(trace[q]) :
                                  IsFileEventOf(sse, url))

\* C33: when the handler has completed normally, the file events of the
\* uploads made during the query have each been emitted exactly once, in the
\* order in which the uploads completed, and all of them before done, which
\* is the last event: also those enqueued after the last yielded element.
C33_FileEventsOnceInOrderBeforeDone ==
    \A q \in Queries :
        ( qpc[q] = "finished" /\ ending[q] = "completed" )
        => /\ C33_OwnFileEventsEmitted(q) = C33_FileEventsOf(trace[q])
           /\ emitted[q][Len(emitted[q])] = done_event

\* an upload, a yielded element, an inline upload after it, then completion
C33_Witness ==
    \E q \in Queries :
        /\ qpc[q] = "finished" /\ ending[q] = "completed"
        /\ Len(trace[q]) = 3
        /\ trace[q][1].op = "upload"
        /\ trace[q][2].op = "yield" /\ trace[q][2].at > 0
        /\ trace[q][3].op = "upload" /\ trace[q][3].inline_ref # None
        /\ emitted[q][Len(emitted[q]) - 1].event = "file"

(***************************************************************************)
(* C34: what post_message_attachment does to the pending file events.      *)
(***************************************************************************)
\* the step is a call of post_message_attachment by the handler of q: what
\* the call did is the entry it adds to the trace
C34_Called(q) ==
    /\ Len(trace'[q]) = Len(trace[q]) + 1
    /\ trace'[q][Len(trace'[q])].op \in {"upload", "upload_raised"}

C34_Returned(q) == trace'[q][Len(trace'[q])]

\* C34: a call of post_message_attachment that succeeds appends exactly one
\* file event to the pending queue of message_id and leaves the other queues
\* as they were, inline or not; the event's inline_ref is non-null exactly
\* when is_inline is true, and is then the inline_ref returned to the caller;
\* a call that raises (parameters rejected, upload failed) leaves every
\* pending queue unchanged.
C34_OneFileEventPerSuccessfulUpload ==
    [][ \A q \in Queries :
          C34_Called(q) =>
            LET m == message_id[q]
                r == C34_Returned(q)
                before == file_events_to_yield[m]
                after == file_events_to_yield'[m]
            IN  IF r.op = "upload"
                   THEN /\ Len(after) = Len(before) + 1
                        /\ SubSeq(after, 1, Len(before)) = before
                        /\ after[Len(after)].event = "file"
                        /\ after[Len(after)].data.obj["url"] = JStr(r.url)
                        /\ ( after[Len(after)].data.obj["inline_ref"] # JNull )
                              <=> r.is_inline
                        /\ r.is_inline =>
                              /\ r.inline_ref # None
                              /\ after[Len(after)].data.obj["inline_ref"]
                                     = JStr(r.inline_ref)
                        /\ \A o \in MsgIds \ {m} :
                               file_events_to_yield'[o] = file_events_to_yield[o]
                   ELSE file_events_to_yield' = file_events_to_yield ]_vars

\* one query has an upload that is not inline pending, the other an inline
\* one, and a call of the first has been rejected
C34_Witness ==
    /\ qpc["q1"] = "running" /\ qpc["q2"] = "running"
    /\ Len(file_events_to_yield[message_id["q1"]]) = 1
    /\ Len(file_events_to_yield[message_id["q2"]]) = 1
    /\ \E i \in DOMAIN trace["q1"] :
           trace["q1"][i].op = "upload" /\ ~trace["q1"][i].is_inline
    /\ \E i \in DOMAIN trace["q2"] :
           trace["q2"][i].op = "upload" /\ trace["q2"][i].is_inline
    /\ trace["q1"][Len(trace["q1"])].op = "upload_raised"
    /\ trace["q1"][Len(trace["q1"])].exc = "InvalidParameterError"

(***************************************************************************)
(* C35: the report made on done.                                           *)
(***************************************************************************)
C35_Report == "Bot returned no text in response"

RECURSIVE C35_Count(_, _)
C35_Count(reps, text) ==
    IF reps = <<>> THEN 0
    ELSE (IF Head(reps) = text THEN 1 ELSE 0) + C35_Count(Tail(reps), text)

\* before its k-th event the attempt received a text or replace_response event
C35_GotText(k) ==
    \E j \in 1..(k - 1) : received[j].event \in {"text", "replace_response"}

\* before its k-th event the attempt made an error report and went on: a bad
\* meta field or an unknown event
C35_ReportedEarlier(k) ==
    \E j \in 1..(k - 1) : effects[j].reports > 0

\* on its k-th event the attempt made the report exactly when the claim says,
\* and ended normally
C35_ReportsAndEnds(k) ==
    /\ k = Len(received)
    /\ effects[k].kind = "return"
    /\ cpc = "returned" /\ raised = NoExc
    /\ effects[k].reports = (IF ~C35_GotText(k) /\ ~C35_ReportedEarlier(k) /\ ~tools
                                THEN 1 ELSE 0)
    /\ effects[k].reports = 1 => reports[Len(reports)] = C35_Report
    /\ C35_Count(reports, C35_Report) = effects[k].reports

C36_Attempts == { i \in DOMAIN upload_log : upload_log[i].kind = "attempt" }
C36_Requests == { i \in C36_Attempts : upload_log[i].sent # None }
C36_Sleeps == { i \in DOMAIN upload_log : upload_log[i].kind = "sleep" }

\* the arguments the claim calls invalid: no api_key, a file together with a
\* URL, neither of them, raw bytes without a file_name
C36_Invalid(args) ==
    \/ Falsy(args.api_key)
    \/ args.file # None /\ ~Falsy(args.file_url)
    \/ args.file = None /\ args.file_url = None
    \/ args.file \in {"empty_bytes", "bytes"} /\ Falsy(args.file_name)

\* at most num_tries attempts, each with at most one request; nothing follows
\* an attempt that succeeded; a sleep comes only after a failed attempt that
\* is not the last; when every attempt failed the error raised is the last one
C36_Retries ==
    /\ Cardinality(C36_Attempts) <= upload_args.num_tries
    /\ \A i \in C36_Attempts :
           upload_log[i].answer = "ok"
           => /\ i = Len(upload_log)
              /\ upload_pc = "returned"
    /\ \A i \in C36_Sleeps :
           /\ i > 1 /\ upload_log[i - 1].kind = "attempt"
           /\ upload_log[i - 1].answer # "ok"
           /\ Cardinality({ k \in C36_Attempts : k < i }) < upload_args.num_tries
    /\ upload_pc = "returned"
       => /\ upload_log # <<>>
          /\ upload_log[Len(upload_log)].answer = "ok"
    /\ ( upload_pc = "raised" /\ upload_log # <<>> )
       => /\ Cardinality(C36_Attempts) = upload_args.num_tries
          /\ upload_log[Len(upload_log)].kind = "attempt"
          /\ upload_result.what = upload_log[Len(upload_log)].answer

\* C36: upload_file sends at most num_tries requests, returns on the first
\* that succeeds, sleeps only after a failed attempt that another follows and
\* re-raises the last error after num_tries failures; a call without api_key,
\* with both or neither of file and file_url, or with raw bytes and no
\* file_name raises before any request is sent.
C36_AtMostNumTriesValidatedFirst ==
    /\ C36_Retries
    /\ ( upload_pc # "idle" /\ C36_Invalid(upload_args) )
       => /\ upload_pc = "raised"
          /\ upload_log = <<>>

(***************************************************************************)
(* C37: two queries in progress with different message_ids.                *)
(***************************************************************************)
\* no file event of an upload made for one message_id is in the stream of a
\* query with another message_id
C37_NoForeignFileEvent ==
    \A q \in Queries : \A p \in Queries :
        ( message_id[q] # None /\ message_id[p] # None
          /\ message_id[q] # message_id[p] )
        => \A k \in DOMAIN emitted[q] :
               \A url \in C32_UploadedUrls(trace[p]) :
                   ~IsFileEventOf(emitted[q][k], url)

\* C37: with two queries of different message_ids in progress on one PoeBot,
\* in every interleaving of their uploads and yields no file event enqueued
\* for one message_id is emitted in the other query's stream, and a step in
\* which one query emits (and so drains its pending file events) leaves the
\* pending file events of every other message_id unchanged.
C37_QueuesArePerMessageId ==
    /\ []C37_NoForeignFileEvent
    /\ [][ \A q \in Queries :
             emitted'[q] # emitted[q]
             => \A m \in MsgIds \ {message_id[q]} :
                    file_events_to_yield'[m] = file_events_to_yield[m] ]_vars

\* both queries are in progress, each uploaded once, and the first has
\* emitted its file event while the other's is still pending
C37_Witness ==
    /\ qpc["q1"] = "running" /\ qpc["q2"] = "running"
    /\ message_id["q1"] = "m1" /\ message_id["q2"] = "m2"
    /\ Uploaded(trace["q1"]) /\ Uploaded(trace["q2"])
    /\ \E k \in DOMAIN emitted["q1"] : emitted["q1"][k].event = "file"
    /\ file_events_to_yield["m1"] = <<>>
    /\ Len(file_events_to_yield["m2"]) = 1

(***************************************************************************)
(* C38: what get_final_response returns after a retry.                     *)
(***************************************************************************)
\* the chunks get_final_response would keep of these messages alone
RECURSIVE C38_ChunksOf(_, _)
C38_ChunksOf(fc, messages) ==
    IF messages = <<>> THEN fc
    ELSE C38_ChunksOf(
             IF Head(messages).cls = "MetaMessage" \/ Head(messages).is_suggested_reply
                THEN fc
             ELSE IF Head(messages).is_replace_response THEN <<Head(messages).text>>
             ELSE Append(fc, Head(messages).text),
             Tail(messages))

\* C38: the string get_final_response returns is the text of the attempt that
\* ended normally and of no other: text yielded by an earlier attempt that
\* failed with a transport error and was retried is not part of it.
C38_FinalResponseOfOneAttempt ==
    final_result.kind = "return"
    => final_result.text = Join(C38_ChunksOf(<<>>, C30_Messages(effects)))

(***************************************************************************)
(* C39: what becomes of the tool-call deltas.                              *)
(***************************************************************************)
\* the chunks of the first stream, with null finish_reason, that carry
\* tool-call deltas
C39_DeltaChunks ==
    { i \in DOMAIN first_stream :
        /\ first_stream[i].kind # "plain"
        /\ first_stream[i].finish_reason = None
        /\ first_stream[i].has_tool_calls }

\* the deltas of chunk i were yielded to the caller
C39_Yielded(i) ==
    \E j \in DOMAIN forwarded :
        forwarded[j] = ToolCallsMessage(first_stream[i].tool_calls, first_stream[i].index)

\* every aggregated tool call was executed and sent in the second request
C39_ExecutedAndSent ==
    /\ Len(second_requests) = 1
    /\ second_requests[1].tool_calls = aggregated_tool_calls
    /\ \A k \in DOMAIN aggregated_tool_calls :
           \E n \in DOMAIN invoked : invoked[n] = aggregated_tool_calls[k].id

\* C39: once _stream_request_with_tools has returned, the deltas of every
\* chunk with null finish_reason were either yielded to the caller, or the
\* tool calls aggregated from them were all executed and sent in the second
\* request (nothing aggregated: only deltas without a seed), whether
\* tool_executables is None, an empty list or non-empty.
C39_ToolCallsNeverDropped ==
    tpc = "done"
    => \A i \in C39_DeltaChunks :
           \/ C39_Yielded(i)
           \/ aggregated_tool_calls = <<>>
           \/ C39_ExecutedAndSent

(***************************************************************************)
(* C40: how stream_request_base ends.                                      *)
(***************************************************************************)
C40_Ended == cpc \in {"returned", "raised"}

C40_EndedNormally(k) == outcomes[k].how \in {"done", "exhausted"}

\* it has returned only if its last attempt ended normally, nothing being
\* raised, and it has raised only if its last attempt failed
C40_OneOfTwoWays ==
    num_tries >= 1 =>
        /\ cpc = "returned"
           => /\ outcomes # <<>>
              /\ C40_EndedNormally(Len(outcomes))
              /\ raised = NoExc
        /\ cpc = "raised"
           => /\ outcomes # <<>>
              /\ ~C40_EndedNormally(Len(outcomes))
              /\ raised # NoExc
        /\ \A k \in DOMAIN outcomes : C40_EndedNormally(k) => k = Len(outcomes)

\* C40: for num_tries >= 1 and finite event streams stream_request_base
\* always terminates, either returning after an attempt that ended normally
\* (done received or stream exhausted) with nothing raised, or raising; it
\* never returns after a failed attempt that no normally ended attempt
\* followed, and once ended it does nothing more.
C40_TerminatesInOneOfTwoWays ==
    /\ []C40_OneOfTwoWays
    /\ [][ C40_Ended => UNCHANGED <<cpc, raised, outcomes, attempts>> ]_vars
    /\ ( num_tries >= 1 ) ~> C40_Ended

\* the first of two tries failed before yielding and the second received done
C40_Witness ==
    /\ num_tries = 2
    /\ Len(outcomes) = 2
    /\ outcomes[1].how = "ConnectError" /\ outcomes[1].yields = 0
    /\ outcomes[2].how = "done"
    /\ cpc = "returned" /\ raised = NoExc
====
